---------------------------- MODULE Spec2Model ----------------------------
(***************************************************************************)
(* The learned-profile store of flowscrape (src/src/learn/learn.ts), the   *)
(* three callers that write to it (src/src/engine.raw.ts runRaw,           *)
(* src/src/engine.ts run, src/src/learn/manual.ts FS_HOST_SAVE) and the    *)
(* durable file storage/learned.json that every process reads and rewrites.*)
(*                                                                         *)
(* Data representation                                                     *)
(*   selector   [base, hash]: the text of a CSS selector split into its    *)
(*              stable part (base, 0 = no text) and the hashed utility     *)
(*              class fragment the regex of stripHashedClasses matches     *)
(*              (hash, 0 = none).  [base |-> 0, hash |-> 0] is "".         *)
(*   bucket     a sequence of selectors; the JavaScript value undefined is *)
(*              the empty sequence (the store never holds [] itself:       *)
(*              normalizeList and mergeUniq turn an empty array into       *)
(*              undefined).                                                *)
(*   fields     a function from field names to rules.                      *)
(*   html       the features of a document that the store reads: the       *)
(*              counts makeTemplateHash takes and the results of the DOM   *)
(*              queries of mineCandidatesFromHtml.  len = 0 is "".         *)
(*   host       [scheme, labels]: an optional "https://" and the dot       *)
(*              separated labels.                                          *)
(*   profile id <<"default", 0>> or <<"gen", n>> for the n-th generated id.*)
(*   The base of a selector tells what its text is: 1..99 a class selector *)
(*   of a container or card (".card"), 900..999 an attribute selector      *)
(*   ("[data-sku]"), 1000 and more a selector of links ("... a[href]").    *)
(***************************************************************************)
EXTENDS Integers, Sequences, FiniteSets, TLC

(* ------------------------------ bounds -------------------------------- *)

\* operations (loads, upserts, saves, runs started) in one behaviour
MaxOps == 2

\* how far the wall clock runs past the seeded store's last write
MaxClock == 1

(* ----------------------------- selectors ------------------------------ *)

Sel(b) == [base |-> b, hash |-> 0]

HashedSel(b, h) == [base |-> b, hash |-> h]

EmptyString == Sel(0)

\* Boolean(s) of a selector string: "" is falsy
Truthy(s) == s # EmptyString

Range(a, b) == [i \in 1..(b - a + 1) |-> Sel(a + i - 1)]

Min(a, b) == IF a <= b THEN a ELSE b

\* A selector can also be given by its characters, over an alphabet that
\* has the ".", the hashed prefixes "_" and "tw", and class characters.
Chars == {".", "_", "t", "w"}

\* [a-z0-9_-]
ClassChars == {"_", "t", "w"}

\* the selector with the given text; base 700: a text without an anchor or
\* a container word
Txt(chars) ==
  IF chars = <<>> THEN EmptyString
  ELSE [base |-> 700, hash |-> 0, text |-> chars]

IsTxt(sel) == "text" \in DOMAIN sel

RECURSIVE ClassRun(_, _)
\* the number of class characters of s from position i on
ClassRun(s, i) ==
  IF i > Len(s) \/ s[i] \notin ClassChars THEN 0 ELSE 1 + ClassRun(s, i + 1)

\* the position after the prefix of \.(?:css|chakra|sc|tw|_) at i, 0 if the
\* text at i is not "." and a prefix
AfterPrefix(s, i) ==
  IF i + 1 <= Len(s) /\ s[i] = "." /\ s[i + 1] = "_" THEN i + 2
  ELSE IF i + 2 <= Len(s) /\ s[i] = "." /\ s[i + 1] = "t" /\ s[i + 2] = "w"
  THEN i + 3
  ELSE 0

\* the length of the match of /\.(?:css|chakra|sc|tw|_)[a-z0-9_-]+/ at i, 0
\* if there is none
MatchLen(s, i) ==
  IF AfterPrefix(s, i) = 0 \/ ClassRun(s, AfterPrefix(s, i)) = 0 THEN 0
  ELSE AfterPrefix(s, i) - i + ClassRun(s, AfterPrefix(s, i))

RECURSIVE StripFrom(_, _)
\* String.prototype.replace with the g flag: the matches from the left, the
\* search going on after each match
StripFrom(s, i) ==
  IF i > Len(s) THEN <<>>
  ELSE IF MatchLen(s, i) > 0 THEN StripFrom(s, i + MatchLen(s, i))
  ELSE <<s[i]>> \o StripFrom(s, i + 1)

RECURSIVE StripFirstFrom(_, _)
\* a replace without the g flag: the first match only
StripFirstFrom(s, i) ==
  IF i > Len(s) THEN <<>>
  ELSE IF MatchLen(s, i) > 0 THEN SubSeq(s, i + MatchLen(s, i), Len(s))
  ELSE <<s[i]>> \o StripFirstFrom(s, i + 1)

\* stripHashedClasses with a regular expression that is not global
StripFirstOnly(sel) ==
  IF IsTxt(sel) THEN Txt(StripFirstFrom(sel.text, 1))
  ELSE [sel EXCEPT !.hash = 0]

\* learn.ts stripHashedClasses: every ".css…/.chakra…/.sc…/.tw…/._…" fragment
\* is deleted, the rest of the text stays
StripHashedClasses(sel) ==
  IF IsTxt(sel) THEN Txt(StripFrom(sel.text, 1))
  ELSE [sel EXCEPT !.hash = 0]

\* learn.ts toArray on an array or undefined (strings never reach the store
\* calls modelled here)
ToArray(x) == x

MapSeq(s, Op(_)) == [i \in 1..Len(s) |-> Op(s[i])]

\* Array.from(new Set(arr)): first occurrences, order kept
Uniq(s) ==
  LET first == SelectSeq([i \in 1..Len(s) |-> i],
                         LAMBDA i : \A j \in 1..(i - 1) : s[j] # s[i])
  IN [k \in 1..Len(first) |-> s[first[k]]]

\* learn.ts normalizeList: strip, drop "", dedupe; empty -> undefined
NormalizeList(list) ==
  Uniq(SelectSeq(MapSeq(ToArray(list), StripHashedClasses), Truthy))

CAPS ==
  [list |-> 20, anchors |-> 40, containers |-> 40, broad |-> 40,
   candidates |-> 80]

BucketNames == {"list", "anchors", "containers", "broad", "candidates"}

\* learn.ts cap: arr ? arr.slice(0, n) : arr
Cap(arr, n) == SubSeq(arr, 1, Min(Len(arr), n))

Undefined == <<>>

NoFields == [k \in {} |-> 0]

EmptyBuckets ==
  [fields |-> NoFields, list |-> Undefined, anchors |-> Undefined,
   containers |-> Undefined, broad |-> Undefined, candidates |-> Undefined]

\* learn.ts normalizeBuckets
NormalizeBuckets(b) ==
  [fields     |-> b.fields,
   list       |-> Cap(NormalizeList(b.list), CAPS.list),
   anchors    |-> Cap(NormalizeList(b.anchors), CAPS.anchors),
   containers |-> Cap(NormalizeList(b.containers), CAPS.containers),
   broad      |-> Cap(NormalizeList(b.broad), CAPS.broad),
   candidates |-> Cap(NormalizeList(b.candidates), CAPS.candidates)]

\* a spread in which the earlier entry wins: the fault the field map is
\* checked to detect
SpreadFirstWins(a, b) ==
  [k \in (DOMAIN a) \cup (DOMAIN b) |-> IF k \in DOMAIN a THEN a[k] ELSE b[k]]

\* {...a, ...b}
Spread(a, b) ==
  [k \in (DOMAIN a) \cup (DOMAIN b) |-> IF k \in DOMAIN b THEN b[k] ELSE a[k]]

(* ------------------------------- hosts -------------------------------- *)

\* the labels of the model that /^([a-z]{2})\./i matches
TwoLetterLabels == {"ca", "uk"}

Tail2(s) == SubSeq(s, 2, Len(s))

\* learn.ts normalizeHost: drop the scheme, a leading "www.", then one
\* leading two-letter label
NormalizeHost(host) ==
  LET h1 == host.labels
      h2 == IF Len(h1) > 1 /\ h1[1] = "www" THEN Tail2(h1) ELSE h1
      h3 == IF Len(h2) > 1 /\ h2[1] \in TwoLetterLabels THEN Tail2(h2) ELSE h2
  IN h3


(* ----------------------------- documents ------------------------------ *)

\* "${sel} a[href]"
AnchorOf(sel) == [sel EXCEPT !.base = sel.base + 1000]

SelItemscopeProduct == Sel(901)

SelDataProduct == Sel(902)

SelDataSku == Sel(903)

SelDataItem == Sel(904)

SelMainLinks == Sel(1905)

SelBodyLinks == Sel(1906)

\* Math.round(n / d) for n >= 0, d > 0
RoundDiv(n, d) == (2 * n + d) \div (2 * d)

\* learn.ts makeTemplateHash: `c${cards}-d${density}-da${dataAttrs}-ld${ld}-${topSig}`
MakeTemplateHash(html) ==
  LET divs == IF html.divs = 0 THEN 1 ELSE html.divs
      density == Min(999, RoundDiv(html.anchors * 1000, divs))
  IN <<html.cards, density, html.dataAttrs, html.ld, html.topSig>>

\* learn.ts mineCandidatesFromHtml, given the results of its DOM queries:
\* html.ldProduct (a JSON-LD block typed Product), html.common (the repeated
\* container signatures) and html.cardSels (their repeated children that
\* hold a link and an image or a price)
MineCandidatesFromHtml(html) ==
  LET fromLd == IF html.ldProduct
                THEN <<SelItemscopeProduct, SelDataProduct, SelDataSku>>
                ELSE <<>>
      strongAnchors == MapSeq(html.cardSels, AnchorOf)
      list0 == html.cardSels
      list1 == IF Len(list0) = 0 /\ Len(strongAnchors) > 0
               THEN strongAnchors ELSE list0
      uniq(a) == Uniq(SelectSeq(a, Truthy))
  IN [fields     |-> NoFields,
      list       |-> uniq(list1),
      anchors    |-> uniq(strongAnchors),
      containers |-> uniq(html.common),
      broad      |-> uniq(<<SelMainLinks, SelBodyLinks>>),
      candidates |-> uniq(fromLd \o <<SelDataProduct, SelDataItem, SelDataSku,
                                      SelItemscopeProduct>>)]

(* ------------------------------ matching ------------------------------ *)

NoMatch == [pathRegex |-> <<>>, queryKeys |-> <<>>, templateHash |-> <<>>]

\* learn.ts scoreProfile.  A path regex is the set of paths it matches.
ScoreProfile(u, html, p) ==
  (IF Len(p.match.pathRegex) > 0 /\ u.path \in p.match.pathRegex[1]
   THEN 2 ELSE 0)
  + Len(SelectSeq(p.match.queryKeys, LAMBDA k : k \in u.query))
  + (IF Len(p.match.templateHash) > 0
        /\ p.match.templateHash = MakeTemplateHash(html)
     THEN 3 ELSE 0)

\* the loop of getBestProfile: the index of the first profile with the
\* highest score (0 for an empty list) and that score
BestIndex(u, html, profiles) ==
  LET n == Len(profiles)
      sc == [i \in 1..n |-> ScoreProfile(u, html, profiles[i])]
      top == CHOOSE i \in 1..n :
               /\ \A j \in 1..n : sc[j] <= sc[i]
               /\ \A j \in 1..(i - 1) : sc[j] < sc[i]
  IN IF n = 0 THEN [idx |-> 0, score |-> -1]
     ELSE [idx |-> top, score |-> sc[top]]

\* a getBestProfile whose loop starts from bestScore = 0: when no profile
\* matches, none is better and the result is that of a host without profile
GetBestProfileFromZero(store, host, url, html) ==
  LET key == NormalizeHost(host)
      profiles == store[key]
      b == BestIndex(url, html, profiles)
  IN IF Len(profiles) = 0 \/ b.score = 0
     THEN [idx |-> 0, buckets |-> EmptyBuckets, score |-> 0]
     ELSE [idx |-> b.idx,
           buckets |-> NormalizeBuckets(profiles[b.idx].buckets),
           score |-> b.score]

\* learn.ts getBestProfile; idx = 0 is profile: null
GetBestProfile(store, host, url, html) ==
  LET key == NormalizeHost(host)
      profiles == store[key]
      b == BestIndex(url, html, profiles)
  IN IF Len(profiles) = 0
     THEN [idx |-> 0, buckets |-> EmptyBuckets, score |-> 0]
     ELSE [idx |-> b.idx,
           buckets |-> NormalizeBuckets(profiles[b.idx].buckets),
           score |-> b.score]

\* learn.ts getLearnedForHost: the most recently appended profile; found =
\* FALSE is null
GetLearnedForHost(store, host) ==
  LET profiles == store[NormalizeHost(host)]
  IN IF Len(profiles) = 0
     THEN [found |-> FALSE, buckets |-> EmptyBuckets]
     ELSE [found |-> TRUE,
           buckets |-> NormalizeBuckets(profiles[Len(profiles)].buckets)]

(* ------------------------------- upsert ------------------------------- *)

MAX_PROFILES == 8

DefaultId == <<"default", 0>>

GenId(n) == <<"gen", n>>

\* rec.profiles.find((x) => x.id === id): the index, 0 when there is none
FindById(profiles, id) ==
  IF \E i \in 1..Len(profiles) : profiles[i].id = id
  THEN CHOOSE i \in 1..Len(profiles) :
         /\ profiles[i].id = id
         /\ \A j \in 1..(i - 1) : profiles[j].id # id
  ELSE 0

\* Array.prototype.sort with (a, b) => a.lastSeen.localeCompare(b.lastSeen):
\* ascending and stable (ISO timestamps compare as the instants they denote)
SortByLastSeen(profiles) ==
  LET n == Len(profiles)
      seen(i) == profiles[i].metrics.lastSeen
      place(i) == Cardinality({j \in 1..n : \/ seen(j) < seen(i)
                                            \/ seen(j) = seen(i) /\ j < i}) + 1
  IN [k \in 1..n |-> profiles[CHOOSE i \in 1..n : place(i) = k]]

\* a trim that removes the oldest entry of the array without sorting: the
\* fault the eviction property is checked to detect
LruTrimNoSort(profiles) ==
  IF Len(profiles) >= MAX_PROFILES THEN Tail(profiles) ELSE profiles

\* a trim that starts one profile too late: the fault the bound on the
\* profiles is checked to detect
LruTrimOffByOne(profiles) ==
  IF Len(profiles) > MAX_PROFILES
  THEN Tail(SortByLastSeen(profiles)) ELSE profiles

\* learn.ts upsertProfile, "LRU trim": sort by lastSeen, shift
LruTrim(profiles) ==
  IF Len(profiles) >= MAX_PROFILES
  THEN Tail(SortByLastSeen(profiles)) ELSE profiles

\* a merge that does not cap: the fault the bucket caps are checked to detect
MergeUniqNoCap(a, b, capSize) == SelectSeq(Uniq(a \o b), Truthy)

\* a merge that puts the incoming selectors first: the fault the prefix
\* property of the merge is checked to detect
MergeUniqIncomingFirst(a, b, capSize) ==
  Cap(SelectSeq(Uniq(b \o a), Truthy), capSize)

\* learn.ts upsertProfile, mergeUniq
MergeUniq(a, b, capSize) == Cap(SelectSeq(Uniq(a \o b), Truthy), capSize)

\* learn.ts upsertProfile, "No-degrade for `list`"
MergedList(nb, ib, items) ==
  IF items > 0 THEN MergeUniq(nb.list, ib.list, CAPS.list) ELSE nb.list

\* the profile that the trim removed, if any
Evicted(before, after) ==
  IF Len(after) < Len(before) + 1
  THEN <<CHOOSE q \in {before[i] : i \in 1..Len(before)} :
           \A i \in 1..Len(after) : after[i] # q>>
  ELSE <<>>

\* learn.ts upsertProfile, "find or create": the profiles of the host after
\* it, the index of the profile p, whether it was created, and the profile
\* evicted to make room (if any).  incoming.isObject = FALSE is an argument
\* without .id, .match, .buckets and .metrics (a string).
FindOrCreate(profiles0, incoming, html, now, freshId) ==
  LET hasId == incoming.isObject /\ incoming.hasId
      found == IF hasId THEN FindById(profiles0, incoming.id) ELSE 0
      inMatch == IF incoming.isObject THEN incoming.match ELSE NoMatch
      inferred ==
        [inMatch EXCEPT !.templateHash =
           IF Len(inMatch.templateHash) > 0 THEN inMatch.templateHash
           ELSE IF html.len > 0 THEN MakeTemplateHash(html) ELSE Undefined]
      newP == [id |-> IF hasId THEN incoming.id ELSE freshId,
               match |-> inferred,
               buckets |-> EmptyBuckets,
               metrics |-> [runs |-> 0, avgItems |-> 0, lastSeen |-> now]]
  IN IF found # 0
     THEN [profiles |-> profiles0, idx |-> found, created |-> FALSE,
           evicted |-> <<>>]
     ELSE [profiles |-> Append(LruTrim(profiles0), newP),
           idx |-> Len(LruTrim(profiles0)) + 1, created |-> TRUE,
           evicted |-> Evicted(profiles0, Append(LruTrim(profiles0), newP))]

\* learn.ts upsertProfile:
\* const mined = html ? normalizeBuckets(mineCandidatesFromHtml(html)) : {}
Mined(html) ==
  IF html.len > 0 THEN NormalizeBuckets(MineCandidatesFromHtml(html))
  ELSE EmptyBuckets

\* learn.ts upsertProfile, mergedIncoming:
\* [...(incoming.buckets.x || []), ...(mined.x || [])]
MergedIncoming(ibk, mined) ==
  [fields     |-> ibk.fields,
   list       |-> ibk.list \o mined.list,
   anchors    |-> ibk.anchors \o mined.anchors,
   containers |-> ibk.containers \o mined.containers,
   broad      |-> ibk.broad \o mined.broad,
   candidates |-> ibk.candidates \o mined.candidates]

\* learn.ts upsertProfile: p.buckets = {...}
MergeBuckets(nb, ib, items) ==
  [fields     |-> Spread(nb.fields, ib.fields),
   list       |-> MergedList(nb, ib, items),
   anchors    |-> MergeUniq(nb.anchors, ib.anchors, CAPS.anchors),
   containers |-> MergeUniq(nb.containers, ib.containers, CAPS.containers),
   broad      |-> MergeUniq(nb.broad, ib.broad, CAPS.broad),
   candidates |-> MergeUniq(nb.candidates, ib.candidates, CAPS.candidates)]

\* learn.ts upsertProfile: const items = Number(incoming.metrics?.items ?? 0)
Items(incoming) == IF incoming.hasItems THEN incoming.items ELSE 0

\* a metrics update that truncates the average instead of rounding it: the
\* fault the average is checked to detect
UpdateMetricsFloor(m, items, now) ==
  [runs |-> m.runs + 1,
   avgItems |-> (m.avgItems * m.runs + items) \div (m.runs + 1),
   lastSeen |-> now]

\* learn.ts upsertProfile, "metrics"
UpdateMetrics(m, items, now) ==
  [runs |-> m.runs + 1,
   avgItems |-> RoundDiv(m.avgItems * m.runs + items, m.runs + 1),
   lastSeen |-> now]

\* learn.ts upsertProfile from "mine from HTML" to "metrics", on the profile p
MergeProfile(p, incoming, html, now) ==
  [p EXCEPT
     !.buckets = MergeBuckets(
                   NormalizeBuckets(p.buckets),
                   NormalizeBuckets(MergedIncoming(incoming.buckets, Mined(html))),
                   Items(incoming)),
     !.metrics = UpdateMetrics(p.metrics, Items(incoming), now)]

\* an upsert that writes the profiles under every host key: the fault the
\* isolation of the hosts is checked to detect
UpsertResultEveryKey(store, key, fc, incoming, html, now) ==
  [threw |-> ~incoming.isObject,
   target |-> fc.profiles[fc.idx].id,
   created |-> fc.created,
   evicted |-> fc.evicted,
   key |-> key,
   store |->
     [k \in DOMAIN store |->
        IF incoming.isObject
        THEN [fc.profiles EXCEPT ![fc.idx] = MergeProfile(@, incoming, html, now)]
        ELSE fc.profiles]]

\* the outcome of upsertProfile before persist(), given the result fc of
\* "find or create".  Reading incoming.buckets.fields of a string raises a
\* TypeError: the profile created (and the eviction) stay in the store,
\* nothing is merged.
UpsertResult(store, key, fc, incoming, html, now) ==
  [threw |-> ~incoming.isObject,
   target |-> fc.profiles[fc.idx].id,
   created |-> fc.created,
   evicted |-> fc.evicted,
   key |-> key,
   store |->
     [store EXCEPT ![key] =
        IF incoming.isObject
        THEN [fc.profiles EXCEPT ![fc.idx] = MergeProfile(@, incoming, html, now)]
        ELSE fc.profiles]]

\* learn.ts upsertProfile up to persist(): the store, whether the call
\* raised, the id of the profile written, whether it was created, and the
\* profile evicted (if any)
UpsertCore(store, host, incoming, html, now, freshId) ==
  UpsertResult(store, NormalizeHost(host),
               FindOrCreate(store[NormalizeHost(host)], incoming, html, now, freshId),
               incoming, html, now)

(* --------------------------- durable storage -------------------------- *)

\* JSON.stringify leaves out every property whose value is undefined
DropUndefined(obj) ==
  [k \in {k \in DOMAIN obj : k = "fields" \/ obj[k] # Undefined} |-> obj[k]]

StringifyProfile(p) ==
  [p EXCEPT !.match = DropUndefined(p.match),
            !.buckets = DropUndefined(p.buckets)]

\* JSON.stringify(learnedByHost): the hosts that have a record
Stringify(store) ==
  [k \in {k \in DOMAIN store : Len(store[k]) > 0} |->
     MapSeq(store[k], StringifyProfile)]

\* a property that is not in the document reads as undefined
ReadAll(obj, names) ==
  [k \in names |-> IF k \in DOMAIN obj THEN obj[k] ELSE Undefined]

ParseProfile(p) ==
  [p EXCEPT !.match = ReadAll(p.match, DOMAIN NoMatch),
            !.buckets = ReadAll(p.buckets, DOMAIN EmptyBuckets)]

AbsentFile == [kind |-> "absent", doc |-> <<>>]

MalformedFile == [kind |-> "malformed", doc |-> <<>>]

JsonFile(store) == [kind |-> "json", doc |-> Stringify(store)]

\* the outcome of writeFileSync: written; refused, file untouched; or
\* failed half way, leaving text that is not JSON
WriteOutcomes == {"ok", "refused", "partial"}

\* a persist that leaves the file alone: the fault write-through is checked
\* to detect
PersistNever(file, store, w) == file

\* learn.ts persist: writeFileSync(LEARNED_PATH, JSON.stringify(learnedByHost))
Persist(file, store, w) ==
  CASE w = "ok" -> JsonFile(store)
    [] w = "refused" -> file
    [] w = "partial" -> MalformedFile


(* ----------------------------- extraction ----------------------------- *)
(* What the extractor reads of a page.                                     *)
(*   text   whether the string holds "http://" (and so a "/x" fragment)    *)
(*          and the amount of the money pattern in it (0: none); NoText is *)
(*          "", and stands for null and undefined where the code tests     *)
(*          truthiness.                                                    *)
(*   href   the path it names (0: no href), whether it is absolute,        *)
(*          whether it ends in "/", whether it has a utm_ parameter.       *)
(*   card   the node extractItems builds one item from: the values its     *)
(*          title, href, image and description cascades produce, the texts *)
(*          the price cascade reads in turn, and the node's surroundings.  *)

Text(url, money) == [empty |-> FALSE, url |-> url, money |-> money]

NoText == [empty |-> TRUE, url |-> FALSE, money |-> 0]

\* "$n": what the money patterns match, with the white space removed
Money(n) == Text(FALSE, n)

Href(path, abs, slash, utm) ==
  [path |-> path, abs |-> abs, slash |-> slash, utm |-> utm]

NoHref == Href(0, FALSE, FALSE, FALSE)

\* a selector text that the selector engine rejects (cheerio raises)
IsInvalid(sel) == sel.base \in 800..899

\* a field rule {sel, attr, text}: the number of the rule is the base of its
\* selector, 0 for a rule without `sel`
RuleSel(rule) == Sel(rule)

\* extract.ts normalizePriceText: null for "", for a text with "http://" or
\* a "/x" fragment, and for a text without money pattern
NormalizePriceText(txt) ==
  IF txt.empty \/ txt.url THEN NoText
  ELSE IF txt.money > 0 THEN Money(txt.money) ELSE NoText

\* resolvers.ts normalizePriceText: the first money pattern of the text,
\* whatever else the text holds
ResolversNormalizePriceText(txt) ==
  IF txt.empty THEN NoText
  ELSE IF txt.money > 0 THEN Money(txt.money) ELSE NoText

\* resolvers.ts extractMoney
ExtractMoney(txt) == ResolversNormalizePriceText(txt)

\* `a ?? b` on the result of a normalizePriceText
Coalesce(a, b) == IF a = NoText THEN b ELSE a

\* extract.ts planForField for a caller that passes no learned buckets: the
\* selectors are [""] (the card itself); title and description are read as
\* text, price has neither attributes nor a read mode
PlanForField(name) ==
  [sels |-> <<EmptyString>>,
   attr |-> IF name \in {"title", "description", "price"} THEN <<>>
            ELSE <<"href", "src", "data-src", "data-srcset", "content">>,
   mode |-> IF name \in {"title", "description"} THEN <<"text">> ELSE <<>>]

\* extract.ts readField on a plan whose only selector is "": nothing is
\* read when the plan has no attribute and no mode; else the card's text
ReadField(card, plan) ==
  IF plan.attr = <<>> /\ plan.mode = <<>> THEN NoText ELSE card.text

\* extract.ts readPrice: normalizePriceText(txt) ?? txt of the field read
ReadPrice(card, plan) ==
  IF ReadField(card, plan) = NoText THEN NoText
  ELSE Coalesce(NormalizePriceText(ReadField(card, plan)),
                ReadField(card, plan))

\* extract.ts extractItems, "price (shallow)"
ShallowPrice(card) == NormalizePriceText(card.shallow)

RECURSIVE FirstPrice(_)
\* the first text of the scan that normalizePriceText accepts
FirstPrice(texts) ==
  IF texts = <<>> THEN NoText
  ELSE IF NormalizePriceText(Head(texts)) # NoText
       THEN NormalizePriceText(Head(texts))
       ELSE FirstPrice(Tail(texts))

\* extract.ts findDeepPrice: the targeted node, then the price-ish nodes (or
\* every descendant) in document order; card.deep lists their texts
FindDeepPrice(card) == FirstPrice(card.deep)

\* resolvers.ts toSelectorArray(ctx.learned?.fields?.price): the selector of
\* the learned price rule, if the caller passed learned buckets with one
LearnedPriceSelectors(learned) ==
  IF "price" \in DOMAIN learned.fields /\ Truthy(RuleSel(learned.fields.price))
  THEN <<RuleSel(learned.fields.price)>> ELSE <<>>

\* resolvers.ts resolvePrice, steps 1 to 4, once the page-level structured
\* data gave no price: the price-ish node of the card, the learned
\* selectors (card.find(sel) is not guarded: an invalid selector raises),
\* the link near a price, the text of the card
ResolveCardPrice(card, sels) ==
  IF ExtractMoney(card.priceSel) # NoText
  THEN [threw |-> FALSE, value |-> ExtractMoney(card.priceSel)]
  ELSE IF \E i \in 1..Len(sels) : IsInvalid(sels[i])
  THEN [threw |-> TRUE, value |-> NoText]
  ELSE IF sels # <<>> /\ ExtractMoney(card.learned) # NoText
  THEN [threw |-> FALSE, value |-> ExtractMoney(card.learned)]
  ELSE IF ExtractMoney(card.link) # NoText
  THEN [threw |-> FALSE, value |-> ExtractMoney(card.link)]
  ELSE [threw |-> FALSE, value |-> ExtractMoney(card.text)]

\* resolvers.ts resolvePrice: step 0 takes the price of the first JSON-LD
\* product of the page, normalizePriceText(val) ?? val
ResolvePrice(html, card, learned) ==
  IF html.ldProducts # <<>> /\ html.ldProducts[1].price # NoText
  THEN [threw |-> FALSE,
        value |-> Coalesce(ResolversNormalizePriceText(html.ldProducts[1].price),
                           html.ldProducts[1].price)]
  ELSE ResolveCardPrice(card, LearnedPriceSelectors(learned))

\* extract.ts extractItems, the price of one card: the field read, the
\* shallow selector, the deep scan, then resolvePrice.  (The isUrlish
\* clean-up between them acts on a price that only normalizePriceText can
\* have produced, and finds nothing to remove.)
CardPrice(html, card, learned) ==
  IF ReadPrice(card, PlanForField("price")) # NoText
  THEN [threw |-> FALSE, value |-> ReadPrice(card, PlanForField("price"))]
  ELSE IF ShallowPrice(card) # NoText
  THEN [threw |-> FALSE, value |-> ShallowPrice(card)]
  ELSE IF FindDeepPrice(card) # NoText
  THEN [threw |-> FALSE, value |-> FindDeepPrice(card)]
  ELSE ResolvePrice(html, card, learned)

B2N(b) == IF b THEN 1 ELSE 0

\* extract.ts extractItems, "SCORING": the score of a raw item
CardScore(card, price) ==
  B2N(card.href # NoHref /\ card.pdp) * 3 + B2N(card.inGrid) * 2
  + B2N(card.image /\ card.title > 0) + B2N(price # NoText)
  - B2N(card.inNav) * 2 - B2N(card.title = 0) - B2N(card.href = NoHref)

\* an item: title (0: none), href, image, description and price as
\* extracted, and the score of the stage that produced it
Item(title, href, image, desc, price, score) ==
  [title |-> title, href |-> href, image |-> image, desc |-> desc,
   price |-> price, score |-> score]

\* extract.ts publicFieldCount
PublicFieldCount(it) ==
  B2N(it.title > 0) + B2N(it.href # NoHref) + B2N(it.image) + B2N(it.desc)
  + B2N(it.price # NoText)

\* extract.ts extractItems, the body of cards.each for one card
BuildItem(card, price) ==
  Item(card.title, card.href, card.image, card.desc, price,
       CardScore(card, price))

\* whether the new item replaces the one stored under the same href:
\* extractItems replaces on a higher score or more public fields,
\* extractFromJsonLd on more keys
Replaces(new, cur, byScore) ==
  \/ byScore /\ new.score > cur.score
  \/ PublicFieldCount(new) > PublicFieldCount(cur)

\* byHref[key] = item: an item without href has a key of its own
PutByHref(acc, it, byScore) ==
  IF it.href # NoHref /\ \E i \in 1..Len(acc) : acc[i].href = it.href
  THEN [i \in 1..Len(acc) |->
          IF acc[i].href = it.href /\ Replaces(it, acc[i], byScore)
          THEN it ELSE acc[i]]
  ELSE Append(acc, it)

RECURSIVE DedupeByHref(_, _, _)
\* Object.values(byHref) after the items were put in turn
DedupeByHref(items, acc, byScore) ==
  IF items = <<>> THEN acc
  ELSE DedupeByHref(Tail(items), PutByHref(acc, Head(items), byScore), byScore)

\* extract.ts extractFromJsonLd, one product: the members named by `fields`
LdItem(product, fields) ==
  Item(IF "title" \in DOMAIN fields THEN product.name ELSE 0,
       IF "href" \in DOMAIN fields THEN product.url ELSE NoHref,
       "image" \in DOMAIN fields /\ product.image,
       FALSE,
       IF "price" \in DOMAIN fields /\ product.price # NoText
       THEN Coalesce(NormalizePriceText(product.price), product.price)
       ELSE NoText,
       0)

\* extract.ts extractFromJsonLd: the products of the page's JSON-LD, an item
\* for each that has one of the fields, one item per href
ExtractFromJsonLd(html, fields) ==
  DedupeByHref(
    SelectSeq([i \in 1..Len(html.ldProducts) |->
                 LdItem(html.ldProducts[i], fields)],
              LAMBDA it : PublicFieldCount(it) > 0),
    <<>>, FALSE)

RECURSIVE ListNodes(_, _)
\* extract.ts extractItems: the nodes of the list selectors in turn, a
\* selector that raises skipped; html.found gives the cards of the nodes a
\* selector matches
ListNodes(html, sels) ==
  IF sels = <<>> THEN <<>>
  ELSE (IF ~IsInvalid(Head(sels)) /\ Head(sels) \in DOMAIN html.found
        THEN html.found[Head(sels)] ELSE <<>>)
       \o ListNodes(html, Tail(sels))

\* the items of the cards, those with a score below 1 dropped
ScoredItems(html, cards, learned) ==
  SelectSeq([i \in 1..Len(cards) |->
               BuildItem(cards[i], CardPrice(html, cards[i], learned).value)],
            LAMBDA it : it.score >= 1)

\* extract.ts extractItems(html, listSelectors, fields, learned).  No caller
\* passes an object with a `buckets` member as `learned`, so the list nodes
\* are those of listSelectors; without list nodes the JSON-LD of the page
\* is the source.  The call raises when a resolver raises.
ExtractFrom(html, cards, fields, learned) ==
  IF cards = <<>>
  THEN [threw |-> FALSE, items |-> ExtractFromJsonLd(html, fields)]
  ELSE IF \E i \in 1..Len(cards) : CardPrice(html, cards[i], learned).threw
  THEN [threw |-> TRUE, items |-> <<>>]
  ELSE [threw |-> FALSE,
        items |-> DedupeByHref(ScoredItems(html, cards, learned), <<>>, TRUE)]

ExtractItems(html, listSelectors, fields, learned) ==
  ExtractFrom(html, ListNodes(html, listSelectors), fields, learned)

(* --------------------------- post-processing -------------------------- *)

\* engine.raw.ts toAbsUrl: new URL(href, base).toString(); no href stays
ToAbsUrl(href) == IF href = NoHref THEN href ELSE [href EXCEPT !.abs = TRUE]

\* engine.raw.ts canonicalHref: the "/" at the end of the string go, then
\* the utm_ parameters (a "/" before the "?" is not at the end and stays)
CanonicalHref(href) ==
  IF href = NoHref THEN href
  ELSE [href EXCEPT !.slash = (href.slash /\ href.utm), !.utm = FALSE]

\* engine.raw.ts dedupeItems, the copy of one raw item (items carry no
\* salePrice, compareAt or images, so coalescePrice keeps the price)
Canonical(it) == [it EXCEPT !.href = CanonicalHref(ToAbsUrl(it.href))]

\* the key of dedupeItems: href + "¦" + title
DedupeKey(it) == <<it.href, it.title>>

RECURSIVE DedupeFrom(_, _)
\* engine.raw.ts dedupeItems: an item is kept if it has an href and no item
\* kept before it has its key
DedupeFrom(items, out) ==
  IF items = <<>> THEN out
  ELSE DedupeFrom(
         Tail(items),
         IF /\ Canonical(Head(items)).href # NoHref
            /\ \A i \in 1..Len(out) :
                 DedupeKey(out[i]) # DedupeKey(Canonical(Head(items)))
         THEN Append(out, Canonical(Head(items))) ELSE out)

\* a dedupeItems that keeps every item: the fault the output of
\* post-processing is checked to detect
DedupeNone(items) == [i \in 1..Len(items) |-> Canonical(items[i])]

DedupeItems(items) == DedupeFrom(items, <<>>)

\* engine.raw.ts scoreItem.  A title number of 10 or more is a text of 20
\* characters or more; a price that is a money pattern has a digit and a
\* currency sign; the hrefs modelled have a "/products/" segment.
ScoreItem(it) ==
  B2N(it.title > 0) * 2 + B2N(it.title >= 10) + B2N(it.href # NoHref) * 2
  + B2N(it.price # NoText) * 2 + B2N(it.price.money > 0) + B2N(it.image)
  + B2N(it.href # NoHref) + B2N(it.desc)

\* String(title) under localeCompare: the title numbers are in the order
\* of their texts, and a missing title is the text "undefined", which is
\* after the short titles and before the long ones
TitleKey(title) == IF title = 0 THEN 19 ELSE 2 * title

\* a canonical href under localeCompare
HrefKey(href) == 2 * href.path + B2N(href.slash)

\* a comparator that breaks the ties of the score by href before title
BeforeHrefFirst(a, b) ==
  \/ a.score > b.score
  \/ a.score = b.score /\ HrefKey(a.href) < HrefKey(b.href)
  \/ /\ a.score = b.score
     /\ HrefKey(a.href) = HrefKey(b.href)
     /\ TitleKey(a.title) < TitleKey(b.title)

\* the comparator of postProcessItems is negative: a goes before b
Before(a, b) ==
  \/ a.score > b.score
  \/ a.score = b.score /\ TitleKey(a.title) < TitleKey(b.title)
  \/ /\ a.score = b.score
     /\ TitleKey(a.title) = TitleKey(b.title)
     /\ HrefKey(a.href) < HrefKey(b.href)

\* x put after the items of a sorted list that do not go after it
InsertSorted(sorted, x) ==
  SelectSeq(sorted, LAMBDA e : ~Before(x, e)) \o <<x>>
  \o SelectSeq(sorted, LAMBDA e : Before(x, e))

RECURSIVE SortFrom(_, _)
\* Array.prototype.sort (stable) with the comparator of postProcessItems
SortFrom(items, sorted) ==
  IF items = <<>> THEN sorted
  ELSE SortFrom(Tail(items), InsertSorted(sorted, Head(items)))

\* scored = deduped.map(it => ({...it, _score: scoreItem(it)}))
ScoreAll(items) ==
  [i \in 1..Len(items) |-> [items[i] EXCEPT !.score = ScoreItem(items[i])]]

\* engine.raw.ts postProcessItems
PostProcessItems(items) == SortFrom(ScoreAll(DedupeItems(items)), <<>>)

(* ------------------------------- inputs ------------------------------- *)

HostShop == [scheme |-> TRUE, labels |-> <<"www", "ca", "shop", "com">>]

HostShopBare == [scheme |-> FALSE, labels |-> <<"shop", "com">>]

HostOther == [scheme |-> FALSE, labels |-> <<"other", "org">>]

Hosts == {HostShop, HostShopBare, HostOther}

HostKeys == {NormalizeHost(h) : h \in Hosts}

EmptyStore == [k \in HostKeys |-> <<>>]

\* JSON.parse of the file, read through the optional chaining of learn.ts
Parse(doc) ==
  [k \in HostKeys |->
     IF k \in DOMAIN doc THEN MapSeq(doc[k], ParseProfile) ELSE <<>>]

\* a card with a relative href that looks like a product page, a title,
\* an image, the given price-ish text and the given text of the whole card
Card(path, title, shallow, text) ==
  [href |-> Href(path, FALSE, FALSE, FALSE), pdp |-> TRUE, title |-> title,
   image |-> TRUE, desc |-> FALSE, shallow |-> shallow, deep |-> <<>>,
   priceSel |-> NoText, learned |-> NoText, link |-> NoText, text |-> text,
   inGrid |-> FALSE, inNav |-> FALSE]

\* a product card that shows its price "$n"
PricedCard(n) == Card(n, n, Money(n), Money(n))

\* a link of the site navigation: no image, no price, not a product page
NavLink(n) ==
  [Card(n, n, NoText, Text(FALSE, 0)) EXCEPT !.pdp = FALSE, !.image = FALSE,
                                            !.inNav = TRUE]

\* the fields autodetect proposes with a list selector: rules without `sel`
CommonFields == [title |-> 0, href |-> 0, price |-> 0, image |-> 0]

NoNodes == [s \in {} |-> <<>>]

\* "": what safeGetContent returns when the page cannot be read
EmptyHtml ==
  [len |-> 0, cards |-> 0, anchors |-> 0, divs |-> 0, dataAttrs |-> 0,
   ld |-> 0, topSig |-> "", ldProduct |-> FALSE, common |-> <<>>,
   cardSels |-> <<>>, autoList |-> <<>>, autoCands |-> <<>>,
   autoFields |-> NoFields, classFields |-> NoFields,
   found |-> NoNodes, ldProducts |-> <<>>]

\* a listing page: a JSON-LD block that names Product but holds no item, a
\* repeated ".card" container (once with a hashed class), one repeated child
\* that looks like a card; autodetect proposes the card selector, which
\* (like its anchor variant) selects the cards
DocA ==
  [len |-> 1, cards |-> 8, anchors |-> 8, divs |-> 12, dataAttrs |-> 2,
   ld |-> 1, topSig |-> "shop", ldProduct |-> TRUE,
   common |-> <<HashedSel(11, 1), Sel(11)>>, cardSels |-> <<Sel(21)>>,
   autoList |-> <<Sel(21)>>, autoCands |-> <<Sel(11)>>,
   autoFields |-> CommonFields, classFields |-> NoFields,
   found |-> [s \in {Sel(21), Sel(1021)} |-> <<PricedCard(1), PricedCard(2)>>],
   ldProducts |-> <<>>]

\* "a[href]", the last fallback of autodetect
SelAllLinks == Sel(1909)

\* a page of another template: no repeated structure, two links of the
\* navigation and three product links; autodetect falls back to "a[href]"
DocB ==
  [len |-> 1, cards |-> 3, anchors |-> 20, divs |-> 5, dataAttrs |-> 0,
   ld |-> 0, topSig |-> "page-home", ldProduct |-> FALSE,
   common |-> <<>>, cardSels |-> <<>>,
   autoList |-> <<SelAllLinks>>, autoCands |-> <<SelAllLinks>>,
   autoFields |-> [title |-> 0, href |-> 0], classFields |-> NoFields,
   found |-> [s \in {SelAllLinks, Sel(1907)} |->
                IF s = SelAllLinks
                THEN <<NavLink(8), PricedCard(1), NavLink(9), PricedCard(2),
                       PricedCard(3)>>
                ELSE <<PricedCard(1), PricedCard(2), PricedCard(3)>>],
   ldProducts |-> <<>>]

UrlList == [path |-> "/collections/all", query |-> {"page"}]

UrlHome == [path |-> "/", query |-> {}]

Urls == {UrlList, UrlHome}

BNone == EmptyBuckets

\* a few selectors, with a hashed variant of one of them, a selector that is
\* nothing but a hashed class, and a repeated one
BSmall ==
  [fields |-> [title |-> 1],
   list |-> <<HashedSel(1, 7), Sel(1), Sel(2)>>,
   anchors |-> <<Sel(1001)>>,
   containers |-> <<HashedSel(0, 3), Sel(11)>>,
   broad |-> <<>>,
   candidates |-> <<Sel(2), Sel(2)>>]

\* a second run's selectors
BMore ==
  [fields |-> [title |-> 3, price |-> 2],
   list |-> <<Sel(3), HashedSel(1, 9)>>,
   anchors |-> <<Sel(1003)>>,
   containers |-> <<>>,
   broad |-> <<Sel(4)>>,
   candidates |-> <<HashedSel(2, 5), Sel(5)>>]

\* more selectors than every cap, the first of each bucket twice (once with
\* a hashed class)
BBig ==
  [fields |-> [price |-> 2],
   list |-> <<HashedSel(101, 1)>> \o Range(101, 100 + CAPS.list + 1),
   anchors |-> <<HashedSel(1201, 1)>> \o Range(1201, 1200 + CAPS.anchors + 1),
   containers |-> <<HashedSel(301, 1)>> \o Range(301, 300 + CAPS.containers + 1),
   broad |-> <<HashedSel(401, 1)>> \o Range(401, 400 + CAPS.broad + 1),
   candidates |-> <<HashedSel(501, 1)>> \o Range(501, 500 + CAPS.candidates + 1)]

\* an UpsertProfileInput {id?, buckets, metrics?: {items}}
Call(hasId, id, buckets, hasItems, items) ==
  [isObject |-> TRUE, hasId |-> hasId, id |-> id, match |-> NoMatch,
   buckets |-> buckets, hasItems |-> hasItems, items |-> items]

\* a string passed where the UpsertProfileInput is expected
StringArg ==
  [isObject |-> FALSE, hasId |-> FALSE, id |-> DefaultId, match |-> NoMatch,
   buckets |-> EmptyBuckets, hasItems |-> FALSE, items |-> 0]

\* the calls of upsertProfile(host, incoming, html) that the store is
\* checked with
ApiCalls ==
  {[host |-> HostShop, inc |-> Call(hasId, DefaultId, b, hasItems, 3), html |-> html] :
     hasId \in BOOLEAN, b \in {BSmall, BMore}, hasItems \in BOOLEAN,
     html \in {EmptyHtml, DocA}}
  \cup
  {[host |-> HostOther, inc |-> Call(hasId, DefaultId, b, TRUE, 1), html |-> DocB] :
     hasId \in BOOLEAN, b \in {BSmall, BBig}}

(* The store that nine earlier upserts on shop.com leave in the file: the   *)
(* "default" profile, written twice, and seven profiles with generated ids, *)
(* the least recently seen of them holding a list.                          *)
SeedCalls ==
  << [inc |-> Call(TRUE, DefaultId, BSmall, TRUE, 2), html |-> DocA, now |-> 1],
     [inc |-> Call(FALSE, DefaultId, BSmall, TRUE, 3), html |-> DocB, now |-> 2],
     [inc |-> Call(FALSE, DefaultId, BSmall, FALSE, 0), html |-> DocA, now |-> 2],
     [inc |-> Call(FALSE, DefaultId, BNone, TRUE, 1), html |-> DocA, now |-> 3],
     [inc |-> Call(TRUE, DefaultId, BNone, TRUE, 4), html |-> EmptyHtml, now |-> 4],
     [inc |-> Call(FALSE, DefaultId, BNone, TRUE, 2), html |-> DocB, now |-> 5],
     [inc |-> Call(FALSE, DefaultId, BSmall, TRUE, 5), html |-> EmptyHtml, now |-> 6],
     [inc |-> Call(FALSE, DefaultId, BNone, FALSE, 0), html |-> DocA, now |-> 6],
     [inc |-> Call(FALSE, DefaultId, BMore, TRUE, 1), html |-> EmptyHtml, now |-> 7] >>

SeedStep(store, i) ==
  UpsertCore(store, HostShop, SeedCalls[i].inc, SeedCalls[i].html,
             SeedCalls[i].now, GenId(i)).store

Seed1 == SeedStep(EmptyStore, 1)

Seed2 == SeedStep(Seed1, 2)

Seed3 == SeedStep(Seed2, 3)

Seed4 == SeedStep(Seed3, 4)

Seed5 == SeedStep(Seed4, 5)

Seed6 == SeedStep(Seed5, 6)

Seed7 == SeedStep(Seed6, 7)

Seed8 == SeedStep(Seed7, 8)

SeedStore == SeedStep(Seed8, Len(SeedCalls))

SeedClock == SeedCalls[Len(SeedCalls)].now + 1

SeedNextId == Len(SeedCalls) + 1

(* -------------------------------- state ------------------------------- *)

\* the operating-system processes; the CLI performs one run per process, a
\* process that has finished stands for the next one started
Procs == {"p1", "p2"}

VARIABLES
  learnedByHost,  \* learn.ts: the module variable, one per process
  disk,           \* storage/learned.json, shared by the processes
  clock,          \* Date.now()
  nextId,         \* the generated ids used so far
  pc,             \* where each process is in its run
  run,            \* the locals of each process's run
  last,           \* the most recent store call: its arguments and outcome
  ops,            \* store calls made directly and runs started so far
  saved,          \* the (host key, profile id) written by upserts that returned
  won,            \* the raw runs that extracted an item: host key, document, winners
  failedWrites    \* whether a write to the file has failed

vars ==
  <<learnedByHost, disk, clock, nextId, pc, run, last, ops, saved, won,
    failedWrites>>

NoRun ==
  [kind |-> "none", host |-> HostOther, url |-> UrlHome, html |-> EmptyHtml,
   idx |-> 0, score |-> 0, learned |-> EmptyBuckets, items |-> 0,
   winners |-> <<>>, tried |-> <<>>, raw |-> <<>>, out |-> <<>>]

NoCall ==
  [op |-> "none", proc |-> "p1", caller |-> "none", host |-> HostOther,
   incoming |-> StringArg, html |-> EmptyHtml, threw |-> FALSE,
   writeFailed |-> FALSE, reported |-> "none", target |-> DefaultId,
   created |-> FALSE, evicted |-> <<>>, key |-> NormalizeHost(HostOther),
   before |-> <<>>]

InitCommon ==
  /\ clock = SeedClock
  /\ nextId = SeedNextId
  /\ pc = [p \in Procs |-> "idle"]
  /\ run = [p \in Procs |-> NoRun]
  /\ last = NoCall
  /\ ops = 0
  /\ saved = {}
  /\ won = {}
  /\ failedWrites = FALSE

\* the wall clock advances between calls (or not: two calls in one millisecond)
Tick ==
  /\ clock < SeedClock + MaxClock
  /\ clock' = clock + 1
  /\ UNCHANGED <<learnedByHost, disk, nextId, pc, run, last, ops, saved, won,
                 failedWrites>>

\* learn.ts loadLearnedSelectors.  The file holds what persist wrote, so every
\* record has `profiles` and the legacy migration loop finds nothing to do.
\* The result: the new value of learnedByHost and whether the call raised
\* (JSON.parse, outside any try, on text that is not JSON).
LoadResult(store, file) ==
  CASE file.kind = "absent" -> [store |-> EmptyStore, threw |-> FALSE]
    [] file.kind = "malformed" -> [store |-> store, threw |-> TRUE]
    [] file.kind = "json" -> [store |-> Parse(file.doc), threw |-> FALSE]

LoadCall(p, r) ==
  [NoCall EXCEPT !.op = "load", !.proc = p, !.caller = "api",
                 !.threw = r.threw,
                 !.reported = IF r.threw THEN "error" ELSE "ok"]

\* a call of loadLearnedSelectors
LoadLearnedSelectors(p) ==
  /\ ops < MaxOps
  /\ pc[p] = "idle"
  /\ \E r \in {LoadResult(learnedByHost[p], disk)} :
     /\ learnedByHost' = [learnedByHost EXCEPT ![p] = r.store]
     /\ last' = LoadCall(p, r)
     /\ ops' = ops + 1
     /\ UNCHANGED <<disk, clock, nextId, pc, run, saved, won, failedWrites>>

\* The effect of one call of upsertProfile by process p on the store, the
\* file and the ghosts.  r is the UpsertCore result, w the outcome of the
\* write; the call raises when r.threw or when the write fails.
UpsertEffect(p, r, incoming, w) ==
  /\ learnedByHost' = [learnedByHost EXCEPT ![p] = r.store]
  /\ nextId' = IF r.created /\ ~(incoming.isObject /\ incoming.hasId)
               THEN nextId + 1 ELSE nextId
  /\ disk' = IF r.threw THEN disk ELSE Persist(disk, r.store, w)
  /\ saved' = IF ~r.threw /\ w = "ok"
              THEN saved \cup {<<r.key, r.target>>} ELSE saved
  /\ failedWrites' = (failedWrites \/ (~r.threw /\ w # "ok"))

\* what the caller sees of a call that raises (or not) and does not catch
Outcome(r, w) == IF r.threw \/ w # "ok" THEN "error" ELSE "ok"

UpsertCall(p, caller, host, incoming, html, r, w, reported) ==
  [op |-> "upsert", proc |-> p, caller |-> caller, host |-> host,
   incoming |-> incoming, html |-> html, threw |-> (r.threw \/ w # "ok"),
   writeFailed |-> (~r.threw /\ w # "ok"), reported |-> reported,
   target |-> r.target, created |-> r.created, evicted |-> r.evicted,
   key |-> r.key, before |-> learnedByHost[p][r.key]]

\* upsertProfile(host, incoming, html) called directly (the exposed interface)
UpsertProfile(p, host, incoming, html, w) ==
  /\ ops < MaxOps
  /\ pc[p] = "idle"
  /\ \E r \in {UpsertCore(learnedByHost[p], host, incoming, html, clock,
                          GenId(nextId))} :
     /\ UpsertEffect(p, r, incoming, w)
     /\ last' = UpsertCall(p, "api", host, incoming, html, r, w, Outcome(r, w))
     /\ ops' = ops + 1
     /\ UNCHANGED <<clock, pc, run, won>>

\* the argument saveLearnedForHost builds: {id: "default", buckets: payload}
SavePayload(payload) ==
  [isObject |-> TRUE, hasId |-> TRUE, id |-> DefaultId, match |-> NoMatch,
   buckets |-> payload, hasItems |-> FALSE, items |-> 0]

\* learn.ts saveLearnedForHost: upsertProfile(host, {id: "default", buckets}, "")
SaveLearnedForHost(p, host, payload, w) ==
  /\ ops < MaxOps
  /\ pc[p] = "idle"
  /\ \E r \in {UpsertCore(learnedByHost[p], host, SavePayload(payload),
                          EmptyHtml, clock, GenId(nextId))} :
     /\ UpsertEffect(p, r, SavePayload(payload), w)
     /\ last' = UpsertCall(p, "save", host, SavePayload(payload), EmptyHtml,
                           r, w, Outcome(r, w))
     /\ ops' = ops + 1
     /\ UNCHANGED <<clock, pc, run, won>>

(* ------------------- the store, called by one process ------------------ *)

\* the file the process finds: none, one that is not JSON, or what the
\* SeedCalls left
InitFiles == {AbsentFile, MalformedFile, JsonFile(SeedStore)}

\* the process has loaded the file at the start of its run (engine.ts:45,
\* engine.raw.ts:764); a load that raised leaves the module's initial {}
Init ==
  /\ InitCommon
  /\ disk \in InitFiles
  /\ learnedByHost =
       [p \in Procs |-> IF p = "p1" THEN LoadResult(EmptyStore, disk).store
                                    ELSE EmptyStore]

Next ==
  \/ Tick
  \/ LoadLearnedSelectors("p1")
  \/ \E c \in ApiCalls, w \in WriteOutcomes :
       UpsertProfile("p1", c.host, c.inc, c.html, w)
  \/ \E host \in {HostShopBare, HostOther}, w \in WriteOutcomes :
       SaveLearnedForHost("p1", host, BMore, w)

Spec == Init /\ [][Next]_vars

(* ----------------------- properties of the store ----------------------- *)

Elems(s) == {s[i] : i \in 1..Len(s)}

\* the profiles of the host of the most recent call, in the caller's memory
After == learnedByHost[last.proc][last.key]

Ids(profiles) == {profiles[i].id : i \in 1..Len(profiles)}

\* C1: an upsertProfile call whose metrics.items is 0 or absent leaves the
\* list bucket of every existing profile of the host exactly as it was, so
\* that every list selector learned before the call is still in the store
\* after it.
C1_NoDegrade ==
  (last.op = "upsert" /\ last.incoming.isObject /\ Items(last.incoming) = 0) =>
    \A i \in 1..Len(last.before) :
      Len(last.before[i].buckets.list) > 0 =>
        \E j \in 1..Len(After) :
          /\ After[j].id = last.before[i].id
          /\ After[j].buckets.list = last.before[i].buckets.list

\* C2: after any sequence of upsertProfile and saveLearnedForHost calls from
\* the empty store, every host record, in memory and in the file, holds at
\* most 8 profiles.
C2_AtMostEightProfiles ==
  /\ \A p \in Procs, k \in HostKeys : Len(learnedByHost[p][k]) <= MAX_PROFILES
  /\ disk.kind = "json" =>
       \A k \in DOMAIN disk.doc : Len(disk.doc[k]) <= MAX_PROFILES

\* C2, its case: a profile was created for a host that held 8 profiles, and
\* the host holds 8 profiles
C2_Witness ==
  /\ last.op = "upsert"
  /\ last.created
  /\ Len(last.before) = MAX_PROFILES
  /\ Len(After) = MAX_PROFILES

\* C3: when upsertProfile creates a profile for a host that holds 8
\* profiles, exactly one of the 8 is removed, no other of the 8 has a smaller
\* metrics.lastSeen than the removed one, the other 7 stay as they were, and
\* the created profile is in the record.
C3_LruEviction ==
  (last.op = "upsert" /\ last.created /\ Len(last.before) = MAX_PROFILES) =>
    /\ Len(After) = MAX_PROFILES
    /\ last.target \in Ids(After) \ Ids(last.before)
    /\ \E i \in 1..Len(last.before) :
         /\ \A j \in 1..Len(last.before) :
              last.before[i].metrics.lastSeen <= last.before[j].metrics.lastSeen
         /\ {q \in Elems(After) : q.id # last.target} =
              Elems(last.before) \ {last.before[i]}

\* C3, its case: a profile was created for a host that held 8 profiles, the
\* one removed was seen least recently and was not the first of the record
C3_Witness ==
  /\ last.op = "upsert"
  /\ last.created
  /\ Len(last.before) = MAX_PROFILES
  /\ last.evicted # <<>>
  /\ last.evicted[1] # last.before[1]
  /\ last.evicted[1].metrics.lastSeen < last.before[1].metrics.lastSeen

NoDupStripped(s) ==
  Cardinality({StripHashedClasses(s[i]) : i \in 1..Len(s)}) = Len(s)

BucketsOk(b) ==
  \A n \in BucketNames : NoDupStripped(b[n]) /\ Len(b[n]) <= CAPS[n]

C5_ReadBackSuperset ==
  (last.op = "upsert" /\ ~last.threw) =>
    \A u \in Urls, n \in BucketNames :
      (n # "list" \/ Items(last.incoming) > 0) =>
        \/ Len(GetBestProfile(learnedByHost[last.proc], last.host, u,
                              last.html).buckets[n]) = CAPS[n]
        \/ Elems(NormalizeList(last.incoming.buckets[n])) \subseteq
             Elems(GetBestProfile(learnedByHost[last.proc], last.host, u,
                                  last.html).buckets[n])

\* C7: whenever an upsertProfile call returns, the content of the file is
\* the whole in-memory host map of the calling process.
C7_WriteThrough ==
  (last.op = "upsert" /\ ~last.threw) =>
    disk = JsonFile(learnedByHost[last.proc])

\* C7, its case: an upsert that merged into an existing profile of a host
\* with several profiles has returned
C7_Witness ==
  /\ last.op = "upsert"
  /\ ~last.threw
  /\ ~last.created
  /\ Len(After) > 1
  /\ After # last.before

\* C9: loadLearnedSelectors on a file whose content is not parsable JSON
\* does not raise and leaves the store empty.
C9_MalformedLoadsEmpty ==
  (last.op = "load" /\ disk.kind = "malformed") =>
    (~last.threw /\ learnedByHost[last.proc] = EmptyStore)

(* -------------------------------- runs -------------------------------- *)

\* the pages the runs are started on: url, its host, and the document the
\* browser renders for it
Sites ==
  {[host |-> HostShop, url |-> UrlList, html |-> DocA],
   [host |-> HostOther, url |-> UrlHome, html |-> DocB]}

RunKinds == {"raw", "normal", "teach"}

\* engine.raw.ts isAnchorish: the selector text holds "a[href" or "/product"
IsAnchorish(s) == s.base >= 1000

\* engine.raw.ts isContainerish: a grid/product/card/collection/item word
\* and no "a[href"
IsContainerish(s) == s.base \in 1..99

\* engine.raw.ts toAnchorVariant
ToAnchorVariant(s) == IF IsContainerish(s) THEN AnchorOf(s) ELSE s

\* "a[href*='/product']"
SelProductLinks == Sel(1907)

\* "a[href*='/products/']"
SelProductsLinks == Sel(1908)

\* engine.raw.ts unique
Unique(arr) == Uniq(SelectSeq(arr, Truthy))

COLD_THRESHOLD == 2

\* engine.raw.ts runRaw, "build buckets to TRY"; autodetect's listSelector
\* and candidates are html.autoList and html.autoCands (no classified list:
\* the selector files hold `list` as a string, not an array)
RawBuckets(learned, score, html) ==
  [list       |-> IF score < COLD_THRESHOLD THEN <<>> ELSE ToArray(learned.list),
   anchors    |-> Unique(learned.anchors \o MapSeq(html.autoList, ToAnchorVariant)
                         \o SelectSeq(html.autoCands, IsAnchorish)),
   containers |-> Unique(learned.containers
                         \o SelectSeq(html.autoCands, IsContainerish)),
   broad      |-> Unique(learned.broad \o <<SelProductLinks, SelProductsLinks>>),
   candidates |-> Unique(learned.candidates \o html.autoList \o html.autoCands)]

BucketOrder == <<"list", "anchors", "containers", "broad", "candidates">>

\* engine.raw.ts runRaw, "fields": the rules of the classified default (read
\* only when autodetect proposes no list and none is learned), of autodetect
\* and of the learned profile, later ones first
RawFields(learned, html) ==
  Spread(Spread(IF html.autoList = <<>> /\ ToArray(learned.list) = <<>>
                THEN html.classFields ELSE NoFields,
                html.autoFields),
         learned.fields)

\* the items of extractItems(finalHtml, sels, fields), as runRaw calls it
TryItems(html, sels, fields) ==
  ExtractItems(html, sels, fields, EmptyBuckets).items

\* the position of the first selector that alone yields an item, 0 if none
FirstYield(html, sels, fields) ==
  IF \E i \in 1..Len(sels) : TryItems(html, <<sels[i]>>, fields) # <<>>
  THEN CHOOSE i \in 1..Len(sels) :
         /\ TryItems(html, <<sels[i]>>, fields) # <<>>
         /\ \A j \in 1..(i - 1) : TryItems(html, <<sels[j]>>, fields) = <<>>
  ELSE 0

\* sels.slice(0, 10)
Batch(sels) == SubSeq(sels, 1, Min(Len(sels), 10))

\* the outcome of a bucket whose k-th selector is the first to yield (k = 0:
\* none does, and the batch of the first ten is tried)
TryResult(html, sels, fields, k) ==
  IF k > 0
  THEN [items |-> TryItems(html, <<sels[k]>>, fields),
        winners |-> <<sels[k]>>, tried |-> SubSeq(sels, 1, k)]
  ELSE IF sels # <<>> /\ TryItems(html, Batch(sels), fields) # <<>>
  THEN [items |-> TryItems(html, Batch(sels), fields),
        winners |-> Batch(sels), tried |-> sels]
  ELSE [items |-> <<>>, winners |-> <<>>, tried |-> sels]

\* engine.raw.ts runRaw, one round of "progressive testing": the selectors
\* one by one, then the first ten together
TryBucket(html, sels, fields) ==
  TryResult(html, sels, fields, FirstYield(html, sels, fields))

\* a cascade that goes on after a round extracted items and keeps the last
\* round that did
LastSuccess(r) ==
  IF \E k \in 1..5 : r[k].items # <<>>
  THEN CHOOSE k \in 1..5 :
         r[k].items # <<>> /\ \A j \in (k + 1)..5 : r[j].items = <<>>
  ELSE 5

\* the position of the first round that extracted items, 5 if none did
FirstSuccess(r) ==
  IF \E k \in 1..5 : r[k].items # <<>>
  THEN CHOOSE k \in 1..5 :
         r[k].items # <<>> /\ \A j \in 1..(k - 1) : r[j].items = <<>>
  ELSE 5

\* the rounds up to and with the first that extracted items
CascadeFrom(r, stop) ==
  [items |-> r[stop].items,
   winners |-> r[stop].winners,
   tried |-> r[1].tried
             \o (IF stop >= 2 THEN r[2].tried ELSE <<>>)
             \o (IF stop >= 3 THEN r[3].tried ELSE <<>>)
             \o (IF stop >= 4 THEN r[4].tried ELSE <<>>)
             \o (IF stop >= 5 THEN r[5].tried ELSE <<>>)]

\* the five rounds, each as if it were reached
Rounds(html, buckets, fields) ==
  [k \in 1..5 |-> TryBucket(html, buckets[BucketOrder[k]], fields)]

\* engine.raw.ts runRaw, "progressive testing" over the buckets in order
Cascade(html, buckets, fields) ==
  LET r == Rounds(html, buckets, fields) IN CascadeFrom(r, FirstSuccess(r))

\* the host keys of the runs in flight
InFlight(p) ==
  {NormalizeHost(run[q].host) : q \in {q \in Procs : q # p /\ pc[q] # "idle"}}

\* cli.ts main: a process starts run, runRaw or runTeach on a url, which
\* first calls loadLearnedSelectors (engine.ts:45, engine.raw.ts:764,
\* engine.teach.ts runTeach).  A load that raises rejects the run and the
\* process exits.  Runs against one host are serialized by the operator.
StartRun(p, kind, site) ==
  /\ ops < MaxOps
  /\ pc[p] = "idle"
  /\ NormalizeHost(site.host) \notin InFlight(p)
  /\ \E r \in {LoadResult(EmptyStore, disk)} :
     /\ learnedByHost' = [learnedByHost EXCEPT ![p] = r.store]
     /\ last' = [LoadCall(p, r) EXCEPT !.caller = kind, !.host = site.host]
     /\ pc' = [pc EXCEPT ![p] = IF r.threw THEN "idle" ELSE "loaded"]
     /\ run' = [run EXCEPT ![p] =
                  IF r.threw THEN NoRun
                  ELSE [NoRun EXCEPT !.kind = kind, !.host = site.host,
                                     !.url = site.url, !.html = site.html]]
     /\ ops' = ops + 1
     /\ UNCHANGED <<disk, clock, nextId, saved, won, failedWrites>>

\* engine.raw.ts runRaw from getBestProfile to postProcessItems
RawExtract(p) ==
  /\ pc[p] = "loaded"
  /\ run[p].kind = "raw"
  /\ \E g \in {GetBestProfile(learnedByHost[p], run[p].host, run[p].url,
                              run[p].html)} :
     \E c \in {Cascade(run[p].html,
                       RawBuckets(g.buckets, g.score, run[p].html),
                       RawFields(g.buckets, run[p].html))} :
     \E out \in {PostProcessItems(c.items)} :
       /\ run' = [run EXCEPT ![p] =
                    [@ EXCEPT !.idx = g.idx, !.score = g.score,
                              !.learned = g.buckets, !.raw = c.items,
                              !.out = out, !.items = Len(out),
                              !.winners = c.winners, !.tried = c.tried]]
       /\ pc' = [pc EXCEPT ![p] = "extracted"]
       /\ UNCHANGED <<learnedByHost, disk, clock, nextId, last, ops, saved,
                      won, failedWrites>>

\* engine.raw.ts runRaw: upsertProfile(host, url, finalHtml, {id, buckets,
\* metrics}).  The url string is in the place of `incoming` and the payload
\* in the place of `opts`, which upsertProfile does not read: the call
\* raises before persist(), the run rejects.
RawSave(p) ==
  /\ pc[p] = "extracted"
  /\ \E r \in {UpsertCore(learnedByHost[p], run[p].host, StringArg,
                          run[p].html, clock, GenId(nextId))} :
     /\ UpsertEffect(p, r, StringArg, "ok")
     /\ last' = UpsertCall(p, "raw", run[p].host, StringArg, run[p].html, r,
                           "ok", Outcome(r, "ok"))
  /\ won' = IF run[p].items > 0
            THEN won \cup {[key |-> NormalizeHost(run[p].host),
                            html |-> run[p].html, winners |-> run[p].winners]}
            ELSE won
  /\ pc' = [pc EXCEPT ![p] = "idle"]
  /\ run' = [run EXCEPT ![p] = NoRun]
  /\ UNCHANGED <<clock, ops>>

\* the field rules of the selector files (base.fields)
BaseFields == [title |-> 1]

\* engine.ts buildSelectorConfig: learned, autodetected and the fixed
\* fallback selectors, first occurrences kept (of the base and fixed
\* selectors, those that can match a document of the model)
BuildSelectorConfig(learned, html) ==
  [listSelectors |-> Uniq(SelectSeq(learned.list \o html.autoList
                                    \o <<SelProductLinks, SelProductsLinks>>,
                                    Truthy)),
   fields |-> Spread(Spread(BaseFields, html.autoFields), learned.fields)]

\* a call of extractItems that did not lead to an upsert, as the most
\* recent call
ExtractCall(p, caller, host, threw) ==
  [NoCall EXCEPT !.op = "extract", !.proc = p, !.caller = caller,
                 !.host = host, !.threw = threw,
                 !.reported = IF threw THEN "error" ELSE "ok"]

\* engine.ts run, "persist": saveLearnedForHost(host, {list: listSelectors,
\* fields}) when there are items
NormalSave(p, cfg, w) ==
  \E inc \in {SavePayload([EmptyBuckets EXCEPT !.list = cfg.listSelectors,
                                               !.fields = cfg.fields])} :
  \E r \in {UpsertCore(learnedByHost[p], run[p].host, inc, EmptyHtml, clock,
                       GenId(nextId))} :
    /\ UpsertEffect(p, r, inc, w)
    /\ last' = UpsertCall(p, "normal", run[p].host, inc, EmptyHtml, r, w,
                          Outcome(r, w))

\* engine.ts run from getLearnedForHost to the end: extractItems(finalHtml,
\* listSelectors, fields, learnedForHost) with the selectors of
\* buildSelectorConfig and, if there are items, saveLearnedForHost.  An
\* extraction that raises, like a write that fails, rejects the run.
NormalFinish(p, w) ==
  /\ pc[p] = "loaded"
  /\ run[p].kind = "normal"
  /\ \E learned \in {GetLearnedForHost(learnedByHost[p], run[p].host).buckets} :
     \E cfg \in {BuildSelectorConfig(learned, run[p].html)} :
     \E e \in {ExtractItems(run[p].html, cfg.listSelectors, cfg.fields,
                            learned)} :
       IF ~e.threw /\ e.items # <<>>
       THEN NormalSave(p, cfg, w)
       ELSE /\ w = "ok"
            /\ last' = ExtractCall(p, "normal", run[p].host, e.threw)
            /\ UNCHANGED <<learnedByHost, nextId, disk, saved, failedWrites>>
  /\ pc' = [pc EXCEPT ![p] = "idle"]
  /\ run' = [run EXCEPT ![p] = NoRun]
  /\ UNCHANGED <<clock, ops, won>>

\* the field selectors picked in the overlay
TeachFields == [title |-> 7, price |-> 8]

\* manual.ts FS_HOST_SAVE, called by the overlay's save handler:
\* upsertProfile(host, {buckets: {fields}, metrics}, page.content()) inside
\* try; the catch returns {ok: false}, and the handler's
\* ret.then(function(){ finish(true); }) reports the save as done whatever
\* the promise resolved to.
TeachSave(p, w, samples) ==
  /\ pc[p] = "loaded"
  /\ run[p].kind = "teach"
  /\ \E inc \in {Call(FALSE, DefaultId,
                      [EmptyBuckets EXCEPT !.fields = TeachFields],
                      samples > 0, samples)} :
     \E r \in {UpsertCore(learnedByHost[p], run[p].host, inc, run[p].html,
                          clock, GenId(nextId))} :
       /\ UpsertEffect(p, r, inc, w)
       /\ last' = UpsertCall(p, "teach-bridge", run[p].host, inc, run[p].html,
                             r, w, "ok")
  /\ pc' = [pc EXCEPT ![p] = "taught"]
  /\ UNCHANGED <<clock, ops, run, won>>

\* engine.teach.ts runTeach: no picks before the timeout, the run rejects
TeachAbort(p) ==
  /\ pc[p] = "loaded"
  /\ run[p].kind = "teach"
  /\ pc' = [pc EXCEPT ![p] = "idle"]
  /\ run' = [run EXCEPT ![p] = NoRun]
  /\ UNCHANGED <<learnedByHost, disk, clock, nextId, last, ops, saved, won,
                 failedWrites>>

\* the document runTeach upserts: {id: profile?.id, match: {host}, buckets:
\* {...buckets, fields}, metrics: {items}}
TeachDoc(g, profiles, items) ==
  [isObject |-> TRUE, hasId |-> g.idx > 0,
   id |-> IF g.idx > 0 THEN profiles[g.idx].id ELSE DefaultId,
   match |-> NoMatch, buckets |-> g.buckets, hasItems |-> TRUE,
   items |-> items]

\* engine.teach.ts runTeach after the save: loadLearnedSelectors again,
\* getBestProfile, extract with the learned selectors only (the extractor is
\* not part of the sources: it yields nothing or the cards of the page),
\* upsertProfile(host, doc, finalHtml).  A load or a write that fails
\* rejects the run.
TeachFinish(p, w, found) ==
  /\ pc[p] = "taught"
  /\ \E ld \in {LoadResult(learnedByHost[p], disk)} :
       IF ld.threw
       THEN /\ w = "ok"
            /\ ~found
            /\ last' = [LoadCall(p, ld) EXCEPT !.caller = "teach",
                                               !.host = run[p].host]
            /\ UNCHANGED <<learnedByHost, nextId, disk, saved, failedWrites>>
       ELSE \E g \in {GetBestProfile(ld.store, run[p].host, run[p].url,
                                     run[p].html)} :
            \E inc \in {TeachDoc(g, ld.store[NormalizeHost(run[p].host)],
                                 IF found THEN run[p].html.cards ELSE 0)} :
            \E r \in {UpsertCore(ld.store, run[p].host, inc, run[p].html,
                                 clock, GenId(nextId))} :
              /\ UpsertEffect(p, r, inc, w)
              /\ last' = [UpsertCall(p, "teach", run[p].host, inc, run[p].html,
                                     r, w, Outcome(r, w))
                            EXCEPT !.before = ld.store[r.key]]
  /\ pc' = [pc EXCEPT ![p] = "idle"]
  /\ run' = [run EXCEPT ![p] = NoRun]
  /\ UNCHANGED <<clock, ops, won>>

(* ---------------------- properties of getBestProfile ------------------- *)

\* the documents getBestProfile is asked with
MatchDocs == {EmptyHtml, DocA, DocB}

\* the place of the profile `id` in the order of creation, given the array
\* as it was before the call that may have created it.  Profiles are
\* appended when created and the array is not reordered before the first
\* trim, so the array before the first upsert of the process is in the
\* order of creation.
BornAt(id, before) ==
  IF \E i \in 1..Len(before) : before[i].id = id
  THEN CHOOSE i \in 1..Len(before) : before[i].id = id
  ELSE Len(before) + 1

\* C18: getBestProfile returns a profile whose match score is the highest
\* of the host's profiles, and of the profiles with that score the one
\* created earliest, also when the upsert before it evicted a profile.
C18_BestIsFirstSeen ==
  (last.op = "upsert" /\ ~last.threw /\ ops = 1) =>
    \A u \in Urls, html \in MatchDocs :
      LET g == GetBestProfile(learnedByHost[last.proc], last.host, u, html)
      IN Len(After) > 0 =>
           /\ g.idx \in 1..Len(After)
           /\ g.score = ScoreProfile(u, html, After[g.idx])
           /\ \A j \in 1..Len(After) :
                /\ ScoreProfile(u, html, After[j]) <= g.score
                /\ ScoreProfile(u, html, After[j]) = g.score =>
                     BornAt(After[g.idx].id, last.before)
                       <= BornAt(After[j].id, last.before)

\* the hosts getBestProfile is asked with
MatchHosts == {HostShop, HostShopBare, HostOther}

\* what the process asks getBestProfile about host, url and document
Best(host, u, html) == GetBestProfile(learnedByHost["p1"], host, u, html)

\* C19: getBestProfile returns no profile, empty buckets and score 0
\* exactly when the normalized host has no stored profile; for a host with
\* a profile it returns one of the host's profiles and a score of at least 0.
C19_NullIffNoProfile ==
  \A host \in MatchHosts, u \in Urls, html \in MatchDocs :
    LET g == Best(host, u, html)
        n == Len(learnedByHost["p1"][NormalizeHost(host)])
    IN /\ (g.idx = 0) <=> (n = 0)
       /\ g.idx = 0 => (g.buckets = EmptyBuckets /\ g.score = 0)
       /\ g.idx # 0 => (g.idx \in 1..n /\ g.score >= 0)

\* C19, its case: after a call, one host has profiles none of which matches
\* the url and document asked, and another host has no profile
C19_Witness ==
  /\ last.op \in {"upsert", "load"}
  /\ \E u \in Urls, html \in MatchDocs :
       /\ Best(HostShop, u, html).idx > 0
       /\ Best(HostShop, u, html).score = 0
       /\ Best(HostOther, u, html).idx = 0

(* ------------------------------ autodetect ----------------------------- *)
(* What autodetectFromHtml reads of a page:                                 *)
(*   marker    the text has one of the collection-template markers          *)
(*   micro     the number of microdata Product nodes, microSel the selector *)
(*             of their common ancestor, microCard that of a card in it     *)
(*             ("" if none)                                                 *)
(*   elements  the div/ul/section nodes under the roots, each with its      *)
(*             selector, the selector of its first card ("" if none) and    *)
(*             the counts the sweep scores                                  *)
(*   mainLinks, links   "main a[href]" / "a[href]" match a node             *)
(* Scores are numbers, confidences are in hundredths.                       *)

MaxOf(a, b) == IF a >= b THEN a ELSE b

\* autodetect.ts clampScore on a whole number
ClampScore(s) == MaxOf(1, Min(100, s))

\* autodetect.ts pushCandidate: selector -> the highest score pushed for it,
\* in the order of first insertion
PushCandidate(set, sel, score) ==
  IF ~Truthy(sel) THEN set
  ELSE IF \E i \in 1..Len(set) : set[i].sel = sel
  THEN [i \in 1..Len(set) |->
          IF set[i].sel = sel
          THEN [sel |-> sel, score |-> MaxOf(set[i].score, score)] ELSE set[i]]
  ELSE Append(set, [sel |-> sel, score |-> score])

\* autodetect.ts, the score of one element in the DOM sweep
SweepScore(el) ==
  el.productish * 3 + Min(el.itemish, 10) * 2 + Min(el.imgs, 12)
  + Min(el.headings, 6) - (IF el.filterish THEN 6 ELSE 0)
  - (IF el.sidebar THEN 4 ELSE 0)

\* autodetect.ts, what one element of the sweep adds to the candidates
SweepOne(set, el) ==
  IF el.bad \/ el.anchors < 4 \/ SweepScore(el) <= 4 THEN set
  ELSE PushCandidate(
         PushCandidate(set, AnchorOf(el.sel), ClampScore(SweepScore(el) * 2)),
         el.card, ClampScore(SweepScore(el) * 3))

RECURSIVE Sweep(_, _)
\* autodetect.ts, "DOM heuristic": the elements in document order
Sweep(els, set) ==
  IF els = <<>> THEN set ELSE Sweep(Tail(els), SweepOne(set, Head(els)))

\* autodetect.ts selectorSpecificity: "tag.class a[href]" has a class, an
\* attribute and a space, "tag.class" a class
SelectorSpecificity(sel) == IF IsAnchorish(sel) THEN 8 ELSE 3

\* the comparator of pickPrimary puts a before b
Better(a, b) ==
  \/ a.score > b.score
  \/ a.score = b.score
     /\ SelectorSpecificity(a.sel) > SelectorSpecificity(b.sel)

\* autodetect.ts pickPrimary: the first entry after the (stable) sort
PickPrimary(entries) ==
  entries[CHOOSE i \in 1..Len(entries) :
            /\ \A j \in 1..Len(entries) : ~Better(entries[j], entries[i])
            /\ \A j \in 1..(i - 1) : Better(entries[i], entries[j])]

RECURSIVE RankFrom(_, _)
\* the stable sort of rankAndFlatten, by score from the highest
RankFrom(entries, sorted) ==
  IF entries = <<>> THEN sorted
  ELSE RankFrom(Tail(entries),
                SelectSeq(sorted, LAMBDA e : e.score >= Head(entries).score)
                \o <<Head(entries)>>
                \o SelectSeq(sorted, LAMBDA e : e.score < Head(entries).score))

\* autodetect.ts rankAndFlatten
RankAndFlatten(set) ==
  LET r == RankFrom(set, <<>>) IN [i \in 1..Len(r) |-> r[i].sel]

\* the three grid selectors of the collection templates, the parts of the
\* comma-separated primary selector
SelGridItem == Sel(31)

SelGridProduct == Sel(32)

SelCollectionItem == Sel(33)

\* what autodetectFromHtml returns; isNull is null
Detected(listSelector, candidates, fields, confidence) ==
  [isNull |-> FALSE, listSelector |-> listSelector, candidates |-> candidates,
   fields |-> fields, confidence |-> confidence]

NotDetected ==
  [isNull |-> TRUE, listSelector |-> <<>>, candidates |-> <<>>,
   fields |-> NoFields, confidence |-> 0]

\* the candidates of the microdata step
MicroCandidates(dom) ==
  PushCandidate(PushCandidate(<<>>, AnchorOf(dom.microSel), 70),
                dom.microCard, 78)

\* a sweep result whose confidence is the score of the primary, uncapped
SweepResultUncapped(set) ==
  Detected(<<PickPrimary(set).sel>>, RankAndFlatten(set), CommonFields,
           PickPrimary(set).score)

\* autodetect.ts, the result of the DOM sweep: Math.min(0.75, score / 100)
SweepResult(set) ==
  Detected(<<PickPrimary(set).sel>>, RankAndFlatten(set), CommonFields,
           Min(75, PickPrimary(set).score))

\* autodetect.ts autodetectFromHtml
AutodetectFromHtml(dom) ==
  IF dom.marker
  THEN Detected(<<SelGridItem, SelGridProduct, SelCollectionItem>>,
                <<SelGridItem, SelGridProduct, SelCollectionItem>>,
                CommonFields, 90)
  ELSE IF dom.micro >= 6
  THEN Detected(<<PickPrimary(MicroCandidates(dom)).sel>>,
                RankAndFlatten(MicroCandidates(dom)), CommonFields,
                Min(85, PickPrimary(MicroCandidates(dom)).score))
  ELSE IF Sweep(dom.elements, <<>>) # <<>>
  THEN SweepResult(Sweep(dom.elements, <<>>))
  ELSE IF dom.mainLinks
  THEN Detected(<<SelMainLinks>>, <<SelMainLinks>>, [title |-> 0, href |-> 0], 35)
  ELSE IF dom.links
  THEN Detected(<<SelAllLinks>>, <<SelAllLinks>>, [title |-> 0, href |-> 0], 20)
  ELSE NotDetected

\* an element of the sweep with 8 links: its selector, the selector of its
\* first card, the number of product links, whether it holds many cards,
\* whether it holds many images and headings
Element(sel, card, productish, cards, media, filterish, sidebar) ==
  [sel |-> sel, card |-> card, bad |-> FALSE, anchors |-> 8,
   productish |-> productish, itemish |-> IF cards THEN 12 ELSE 0,
   imgs |-> IF media THEN 12 ELSE 0, headings |-> IF media THEN 8 ELSE 0,
   filterish |-> filterish, sidebar |-> sidebar]

\* a page without markers, microdata, elements and links
NoDom ==
  [marker |-> FALSE, micro |-> 0, microSel |-> Sel(41), microCard |-> EmptyString,
   elements |-> <<>>, mainLinks |-> FALSE, links |-> FALSE]

\* the elements of the pages with one element
DetectElements ==
  {Element(Sel(42), card, productish, cards, media, filterish, sidebar) :
     card \in {EmptyString, Sel(21)}, productish \in {0, 1, 2, 30},
     cards \in BOOLEAN, media \in BOOLEAN, filterish \in BOOLEAN,
     sidebar \in BOOLEAN}

\* the pages autodetect is run on: the marker; microdata Products, 5 or 6,
\* with and without a card; one element; a footer and an element with 3
\* links; two elements whose candidates tie or share a card; links only,
\* under main or not; nothing
DetectDoms ==
  {[NoDom EXCEPT !.marker = TRUE, !.links = TRUE]}
  \cup {[NoDom EXCEPT !.micro = n, !.microCard = card, !.links = TRUE] :
          n \in {5, 6}, card \in {EmptyString, Sel(21)}}
  \cup {[NoDom EXCEPT !.elements = <<el>>, !.links = TRUE] : el \in DetectElements}
  \cup {[NoDom EXCEPT !.elements =
           <<[Element(Sel(42), Sel(21), 30, TRUE, TRUE, FALSE, FALSE)
                EXCEPT !.bad = TRUE],
             [Element(Sel(43), Sel(21), 30, TRUE, TRUE, FALSE, FALSE)
                EXCEPT !.anchors = 3]>>,
           !.mainLinks = TRUE, !.links = TRUE],
        [NoDom EXCEPT !.elements =
           <<Element(Sel(42), Sel(21), 30, TRUE, TRUE, FALSE, FALSE),
             Element(Sel(43), Sel(21), 2, FALSE, FALSE, FALSE, FALSE)>>,
           !.links = TRUE],
        [NoDom EXCEPT !.elements =
           <<Element(Sel(42), EmptyString, 2, FALSE, FALSE, FALSE, FALSE),
             Element(Sel(43), Sel(22), 2, TRUE, TRUE, FALSE, FALSE)>>,
           !.links = TRUE],
        [NoDom EXCEPT !.links = TRUE],
        NoDom}

\* the page with the given DOM: what autodetect proposes for it, and the
\* cards its card selector finds
DocOf(dom) ==
  [dom |-> dom, len |-> 1, cards |-> 2, anchors |-> 8, divs |-> 4,
   dataAttrs |-> 0, ld |-> 0, topSig |-> "list", ldProduct |-> FALSE,
   common |-> <<>>, cardSels |-> <<>>,
   autoList |-> AutodetectFromHtml(dom).listSelector,
   autoCands |-> AutodetectFromHtml(dom).candidates,
   autoFields |-> AutodetectFromHtml(dom).fields,
   classFields |-> NoFields,
   found |-> [s \in {Sel(21), Sel(1021)} |-> <<PricedCard(1), PricedCard(2)>>],
   ldProducts |-> <<>>]

InitDetect ==
  /\ InitCommon
  /\ disk = AbsentFile
  /\ learnedByHost = [p \in Procs |-> EmptyStore]

NextDetect ==
  \/ \E dom \in DetectDoms :
       StartRun("p1", "raw", [host |-> HostShop, url |-> UrlList,
                              html |-> DocOf(dom)])
  \/ RawExtract("p1")
  \/ RawSave("p1")

SpecDetect == InitDetect /\ [][NextDetect]_vars

\* the runs in progress on a page whose DOM is given
Detecting == {p \in Procs : pc[p] # "idle" /\ "dom" \in DOMAIN run[p].html}

\* C21: whenever autodetectFromHtml returns a result, its confidence is
\* between 0 and 0.95, on the path of the marker, of the microdata, of the
\* DOM sweep and of the link fallbacks, whatever the scores of the candidates.
C21_ConfidenceCapped ==
  \A p \in Detecting :
    ~AutodetectFromHtml(run[p].html.dom).isNull =>
      AutodetectFromHtml(run[p].html.dom).confidence \in 0..95

\* C21, its case: a raw run tried the selector autodetect proposed from a
\* sweep whose best candidate has the score 100, clamped, and the
\* confidence is 0.75
C21_Witness ==
  \E p \in Detecting :
    /\ pc[p] = "extracted"
    /\ run[p].tried # <<>>
    /\ Sweep(run[p].html.dom.elements, <<>>) # <<>>
    /\ PickPrimary(Sweep(run[p].html.dom.elements, <<>>)).score = 100
    /\ SweepScore(run[p].html.dom.elements[1]) * 2 > 100
    /\ AutodetectFromHtml(run[p].html.dom).confidence = 75
    /\ run[p].html.autoList = AutodetectFromHtml(run[p].html.dom).listSelector

(* ------------------------- pages to extract from ----------------------- *)

\* a selector that css-select rejects, and a learned price rule with it
SelBroken == Sel(801)

\* a page of the template of DocA on which only the container selector
\* finds the cards
DocContainers ==
  [DocA EXCEPT !.found = [s \in {Sel(11)} |-> <<PricedCard(4), PricedCard(5)>>]]

\* a page of the template of DocA whose card shows no price
DocNoPrice ==
  [DocA EXCEPT !.found = [s \in {Sel(21), Sel(1021)} |->
                            <<Card(1, 1, NoText, Text(FALSE, 0))>>]]

\* a product of the page's JSON-LD: name, offers.price, url, image
LdProduct(n, price) ==
  [name |-> n, price |-> price, url |-> Href(n, TRUE, FALSE, FALSE),
   image |-> TRUE]

\* a page with the marker of a collection template, for which autodetect
\* proposes its fixed grid selectors whatever the DOM holds; none of them
\* matches a node; the products are in an ItemList of the JSON-LD
DocLd ==
  [len |-> 1, cards |-> 2, anchors |-> 5, divs |-> 10, dataAttrs |-> 1,
   ld |-> 1, topSig |-> "collection", ldProduct |-> TRUE,
   common |-> <<>>, cardSels |-> <<>>,
   autoList |-> <<Sel(31), Sel(32)>>, autoCands |-> <<Sel(31), Sel(32)>>,
   autoFields |-> CommonFields, classFields |-> NoFields,
   found |-> NoNodes,
   ldProducts |-> <<LdProduct(1, Money(1)), LdProduct(2, Money(2))>>]

\* the same page where a product link is also found by the fixed broad
\* selector "a[href*='/product']"
DocLdLinks ==
  [DocLd EXCEPT !.found = [s \in {Sel(1907)} |-> <<PricedCard(3)>>]]

\* a page without links and without structured data
DocBare ==
  [len |-> 1, cards |-> 0, anchors |-> 0, divs |-> 1, dataAttrs |-> 0,
   ld |-> 0, topSig |-> "", ldProduct |-> FALSE, common |-> <<>>,
   cardSels |-> <<>>, autoList |-> <<>>, autoCands |-> <<>>,
   autoFields |-> NoFields, classFields |-> NoFields,
   found |-> NoNodes, ldProducts |-> <<>>]

\* a listing whose card is one link with the text "Widget $5, see
\* http://...", without child elements, on a page whose JSON-LD product
\* has the given price
DocUrl(cardText, ldPrice) ==
  [DocA EXCEPT !.found = [s \in {Sel(21), Sel(1021)} |->
                            <<Card(1, 1, NoText, cardText)>>],
               !.ldProducts = <<LdProduct(1, ldPrice)>>]

\* the cards of the listings post-processing is checked with: the same
\* product linked by a relative href, by an absolute one ending in "/" (and
\* without price), with a utm_ parameter (and another title), by an href
\* with "/" and utm_ (that canonicalHref leaves with its "/"); another
\* product; a card without title; a card with a long title
DupCards ==
  << PricedCard(1),
     [Card(1, 1, NoText, Text(FALSE, 0)) EXCEPT !.href = Href(1, TRUE, TRUE, FALSE)],
     [PricedCard(1) EXCEPT !.href = Href(1, FALSE, FALSE, TRUE), !.title = 2],
     [PricedCard(1) EXCEPT !.href = Href(1, TRUE, TRUE, TRUE)],
     PricedCard(2),
     [PricedCard(3) EXCEPT !.title = 0],
     [PricedCard(4) EXCEPT !.title = 10] >>

\* a listing of the template of DocA with the given cards
DocCards(cards) ==
  [DocA EXCEPT !.found = [s \in {Sel(21), Sel(1021)} |-> cards]]

\* two of the cards in either order, or three of the first four
DupPairs ==
  {ij \in (1..Len(DupCards)) \X (1..Len(DupCards)) : ij[1] # ij[2]}

DupTriples ==
  {t \in (1..4) \X (1..4) \X (1..4) :
     t[1] # t[2] /\ t[1] # t[3] /\ t[2] # t[3]}

DupPages ==
  {DocCards(<<DupCards[ij[1]], DupCards[ij[2]]>>) : ij \in DupPairs}
  \cup
  {DocCards(<<DupCards[t[1]], DupCards[t[2]], DupCards[t[3]]>>) :
     t \in DupTriples}

\* a listing with a card that has an image, a title and a price but no
\* link, between two cards of one product whose hrefs differ in form
DocNoLink ==
  DocCards(<<PricedCard(1), [PricedCard(5) EXCEPT !.href = NoHref],
             [PricedCard(1) EXCEPT !.href = Href(1, TRUE, TRUE, FALSE)]>>)

ExtractPages ==
  {DocA, DocContainers, DocNoPrice, DocLd, DocLdLinks, DocBare, DocNoLink,
   DocUrl(Text(TRUE, 5), NoText), DocUrl(Text(FALSE, 0), Text(TRUE, 0)),
   DocUrl(Text(FALSE, 0), Money(6))}
  \cup DupPages

\* the learned selectors of shop.com in the file: a list with a selector
\* that is rejected, one that matches nothing, the card selector and one
\* more, and a price rule with the rejected selector
BLearned ==
  [fields |-> [price |-> 801],
   list |-> <<SelBroken, Sel(22), Sel(21), Sel(23)>>,
   anchors |-> <<Sel(1022)>>,
   containers |-> <<Sel(12), Sel(11), Sel(13)>>,
   broad |-> <<>>,
   candidates |-> <<>>]

\* the store after upsertProfile(host, {id: "default", buckets, metrics:
\* {items: 2}}, html) of a run on DocA
LearnedStore ==
  UpsertCore(EmptyStore, HostShop, Call(TRUE, DefaultId, BLearned, TRUE, 2),
             DocA, 1, GenId(1)).store

(* ---------------- raw and normal runs of one process ------------------- *)

InitExtract ==
  /\ InitCommon
  /\ disk \in {AbsentFile, JsonFile(LearnedStore)}
  /\ learnedByHost = [p \in Procs |-> EmptyStore]

NextExtract ==
  \/ \E kind \in {"raw", "normal"}, html \in ExtractPages :
       StartRun("p1", kind, [host |-> HostShop, url |-> UrlList, html |-> html])
  \/ RawExtract("p1")
  \/ RawSave("p1")
  \/ \E w \in WriteOutcomes : NormalFinish("p1", w)

SpecExtract == InitExtract /\ [][NextExtract]_vars

(* ------------- runs on a file that upsertProfile did not write --------- *)

MaxText == 6

\* the texts of at most MaxText characters
Texts(n) == UNION {[1..k -> Chars] : k \in 0..n}

\* the buckets of the profile in the file: a list of one selector text,
\* lists and candidates of two short texts (that may become the same text
\* or ""), and buckets longer than the caps
NormInputs ==
  {[EmptyBuckets EXCEPT !.list = <<Txt(t)>>, !.fields = [title |-> 1]] :
     t \in Texts(MaxText)}
  \cup
  {[EmptyBuckets EXCEPT !.list = <<Txt(t), Sel(21), Txt(u)>>,
                        !.candidates = <<Txt(u), HashedSel(2, 5), Sel(2)>>] :
     t \in Texts(2), u \in Texts(3)}
  \cup {BBig, BSmall}

\* a store whose shop.com record has one profile, of the template of DocA,
\* with the given buckets as they are
StoreOf(b) ==
  [EmptyStore EXCEPT ![NormalizeHost(HostShop)] =
     << [id |-> DefaultId,
         match |-> [NoMatch EXCEPT !.templateHash = MakeTemplateHash(DocA)],
         buckets |-> b,
         metrics |-> [runs |-> 1, avgItems |-> 2, lastSeen |-> 1]] >>]

InitNorm ==
  /\ InitCommon
  /\ disk \in {JsonFile(StoreOf(b)) : b \in NormInputs}
  /\ learnedByHost = [p \in Procs |-> EmptyStore]

NextNorm ==
  \/ StartRun("p1", "raw", [host |-> HostShop, url |-> UrlList, html |-> DocA])
  \/ RawExtract("p1")
  \/ RawSave("p1")

SpecNorm == InitNorm /\ [][NextNorm]_vars

\* the buckets of the profiles of the process's store
StoredBuckets(p) ==
  UNION {{learnedByHost[p][k][i].buckets : i \in 1..Len(learnedByHost[p][k])} :
           k \in DOMAIN learnedByHost[p]}

\* C20: normalizeBuckets is idempotent: applied to its own result it
\* returns that result, the same selectors in the same order in every
\* bucket and the same fields, for the buckets stored and for the buckets
\* getBestProfile returned to a run.
C20_NormalizeIdempotent ==
  /\ \A p \in Procs : \A b \in StoredBuckets(p) :
       NormalizeBuckets(NormalizeBuckets(b)) = NormalizeBuckets(b)
  /\ \A p \in Procs :
       pc[p] = "extracted" => NormalizeBuckets(run[p].learned) = run[p].learned

\* C20, its case: a run was given the normalized buckets of a stored
\* profile whose list holds a selector text with a hashed class in it, which
\* normalizing changed into another, non-empty text
C20_Witness ==
  \E p \in Procs :
    /\ pc[p] = "extracted"
    /\ run[p].idx > 0
    /\ \E b \in StoredBuckets(p) :
         /\ run[p].learned = NormalizeBuckets(b)
         /\ run[p].learned # b
         /\ \E i \in 1..Len(b.list) :
              /\ IsTxt(b.list[i])
              /\ StripHashedClasses(b.list[i]) \notin {b.list[i], EmptyString}

(* ------------------ runs of two processes on one file ------------------ *)

\* the file the first run finds: none, one that is not JSON, or what the
\* first two SeedCalls left
InitRuns ==
  /\ InitCommon
  /\ disk \in {AbsentFile, MalformedFile, JsonFile(Seed2)}
  /\ learnedByHost = [p \in Procs |-> EmptyStore]

NextRuns ==
  \/ Tick
  \/ \E p \in Procs, kind \in RunKinds, site \in Sites : StartRun(p, kind, site)
  \/ \E p \in Procs : RawExtract(p)
  \/ \E p \in Procs : RawSave(p)
  \/ \E p \in Procs, w \in WriteOutcomes : NormalFinish(p, w)
  \/ \E p \in Procs, w \in WriteOutcomes, samples \in {0, 2} :
       TeachSave(p, w, samples)
  \/ \E p \in Procs : TeachAbort(p)
  \/ \E p \in Procs, w \in WriteOutcomes, found \in BOOLEAN :
       TeachFinish(p, w, found)

SpecRuns == InitRuns /\ [][NextRuns]_vars

(* ------------------------ properties of the runs ----------------------- *)

\* C6: when runRaw processes the same document of the same host twice and
\* run 1 extracted at least one item, then in run 2 getBestProfile returns
\* a score of at least 2 and a non-empty list bucket that holds the
\* selectors that won in run 1.
C6_FeedbackLoop ==
  \A p \in Procs :
    (pc[p] = "extracted" /\ run[p].kind = "raw") =>
      \A e \in won :
        (e.key = NormalizeHost(run[p].host) /\ e.html = run[p].html) =>
          /\ run[p].score >= 2
          /\ Len(run[p].learned.list) > 0
          /\ Elems(e.winners) \subseteq Elems(run[p].learned.list)

\* C8: if the write of the file performed by upsertProfile fails, the
\* caller of every path (raw run, normal run, teach save bridge) is given an
\* error; no path reports the save as done.
C8_WriteFailureSurfaced ==
  (last.op = "upsert" /\ last.writeFailed) => last.reported = "error"

\* C10: with the runs against one host serialized, when all runs have
\* finished and no write has failed, the file holds the profile written by
\* every upsert that returned, also when runs for different hosts overlapped.
C10_NoLostUpsert ==
  ((\A p \in Procs : pc[p] = "idle") /\ ~failedWrites) =>
    \A e \in saved :
      /\ disk.kind = "json"
      /\ e[1] \in DOMAIN disk.doc
      /\ e[2] \in Ids(disk.doc[e[1]])

(* --------------------- properties of the extraction -------------------- *)

\* the selectors of the buckets in the order of the cascade
AllSelectors(b) ==
  b.list \o b.anchors \o b.containers \o b.broad \o b.candidates

\* s is t or the beginning of t
IsPrefix(s, t) == Len(s) <= Len(t) /\ s = SubSeq(t, 1, Len(s))

\* the raw runs that have extracted and not yet saved
Extracted == {p \in Procs : pc[p] = "extracted" /\ run[p].kind = "raw"}

\* the buckets and field rules the run of p tried
BucketsOf(p) == RawBuckets(run[p].learned, run[p].score, run[p].html)

FieldsOf(p) == RawFields(run[p].learned, run[p].html)

\* C11: a raw run tries the buckets in the order list, anchors, containers,
\* broad, candidates and the selectors of a bucket in their order, and stops
\* at the first try that yields items: the selectors tried are a beginning
\* of that order, no try before the last one yields an item, the items and
\* the winner are those of the last try, and a run without items has tried
\* every selector.
C11_CascadeOrder ==
  \A p \in Extracted :
    LET all == AllSelectors(BucketsOf(p))
        t   == run[p].tried
    IN /\ IsPrefix(t, all)
       /\ IF run[p].raw # <<>>
          THEN /\ t # <<>>
               /\ run[p].winners = <<t[Len(t)]>>
               /\ run[p].raw = TryItems(run[p].html, <<t[Len(t)]>>, FieldsOf(p))
               /\ \A i \in 1..(Len(t) - 1) :
                    TryItems(run[p].html, <<t[i]>>, FieldsOf(p)) = <<>>
          ELSE t = all /\ run[p].winners = <<>>

\* C11, its case: a warm run in which the list and anchors rounds yield
\* nothing, the second selector of containers yields the items, and the
\* rest of containers, broad and candidates are not tried
C11_Witness ==
  \E p \in Extracted :
    LET b == BucketsOf(p) IN
    /\ b.list # <<>>
    /\ b.anchors # <<>>
    /\ run[p].raw # <<>>
    /\ Len(run[p].tried) = Len(b.list) + Len(b.anchors) + 2
    /\ Len(b.containers) > 2

\* the selector is accepted and matches a node of the page
Matches(html, sel) ==
  ~IsInvalid(sel) /\ sel \in DOMAIN html.found /\ html.found[sel] # <<>>

\* C12: in a raw run the page's structured data is the source of the items
\* only after every selector of every bucket was tried and none matched a
\* node; a try whose selector matches no node reports no items, so that
\* every recorded winner matches a node.
C12_StructuredDataLast ==
  \A p \in Extracted :
    /\ \A i \in 1..Len(run[p].winners) : Matches(run[p].html, run[p].winners[i])
    /\ (run[p].raw # <<>>
        /\ run[p].raw = ExtractFromJsonLd(run[p].html, FieldsOf(p)))
       => /\ run[p].tried = AllSelectors(BucketsOf(p))
          /\ \A i \in 1..Len(run[p].tried) :
               ~Matches(run[p].html, run[p].tried[i])

\* C13: a selector the selector engine rejects, in a bucket or as the
\* learned field rule a resolver uses, never makes extractItems raise: the
\* extraction of a run completes, the selector counting as yielding nothing.
C13_InvalidSelectorSwallowed ==
  last.op = "extract" => ~last.threw

\* C14: a raw run in which no selector and no fallback produced an item
\* completes without raising: the step that ends it is an upsertProfile call
\* that returns and that records metrics.items = 0.
C14_EmptyRunCompletes ==
  [][\A p \in Procs :
       (pc[p] = "extracted" /\ run[p].kind = "raw" /\ run[p].items = 0
        /\ pc'[p] = "idle")
       => /\ last'.op = "upsert"
          /\ ~last'.threw
          /\ last'.incoming.hasItems
          /\ last'.incoming.items = 0]_vars

\* the raw item as post-processing ranks it
Ranked(it) == [Canonical(it) EXCEPT !.score = ScoreItem(Canonical(it))]

\* o is kept rightly in the place of r: a higher score or, on the same
\* score, at least as many populated fields
KeptOver(o, r) ==
  \/ o.score > r.score
  \/ o.score = r.score /\ PublicFieldCount(o) >= PublicFieldCount(r)

\* C15: post-processing collapses the raw items whose hrefs are the same
\* once canonical (relative or absolute, "/" at the end, utm_ parameters)
\* into one output item: no two output items have the same href, and the
\* item kept for an href has the highest score of the raw items with that
\* href or, on the same score, at least as many populated fields.
C15_OnePerCanonicalHref ==
  \A p \in Extracted :
    LET out == run[p].out
        raw == run[p].raw
    IN /\ \A i, j \in 1..Len(out) : i # j => out[i].href # out[j].href
       /\ \A k \in 1..Len(raw) :
            raw[k].href # NoHref =>
              \E i \in 1..Len(out) :
                /\ out[i].href = Ranked(raw[k]).href
                /\ KeptOver(out[i], Ranked(raw[k]))

\* C16: the list postProcessItems returns is in non-increasing order of the
\* ranking score; items of the same score are in the order of their titles
\* and, with the same title, in the order of their hrefs.
C16_SortedOutput ==
  \A p \in Extracted :
    LET out == run[p].out IN
    \A i \in 1..(Len(out) - 1) :
      /\ out[i].score = ScoreItem(out[i])
      /\ out[i].score >= out[i + 1].score
      /\ out[i].score = out[i + 1].score =>
           /\ TitleKey(out[i].title) <= TitleKey(out[i + 1].title)
           /\ out[i].title = out[i + 1].title =>
                HrefKey(out[i].href) <= HrefKey(out[i + 1].href)

\* C16, its case: an output whose order is not the order of extraction and
\* in which two items of the same score are ordered by their titles against
\* the order of their hrefs
C16_Witness ==
  \E p \in Extracted :
    LET out == run[p].out IN
    /\ out # ScoreAll(DedupeItems(run[p].raw))
    /\ \E i \in 1..(Len(out) - 1) :
         /\ out[i].score = out[i + 1].score
         /\ TitleKey(out[i].title) < TitleKey(out[i + 1].title)
         /\ HrefKey(out[i].href) > HrefKey(out[i + 1].href)

\* C17: no text that contains "http://" is the price of an item, whichever
\* source of the price cascade produced it, in the extracted and in the
\* post-processed items.
C17_NoUrlPrice ==
  \A p \in Extracted :
    /\ \A i \in 1..Len(run[p].raw) : ~run[p].raw[i].price.url
    /\ \A i \in 1..Len(run[p].out) : ~run[p].out[i].price.url


(* ----------------- properties of what the engines learn ---------------- *)

\* the profile "default" of the host of the most recent call, as a sequence
\* of zero or one profile
DefaultOf(profiles) == SelectSeq(profiles, LAMBDA q : q.id = DefaultId)

\* the most recent call is the save of a run of the normal engine that
\* extracted at least one item, and it did not raise
NormalSaved ==
  /\ last.op = "upsert"
  /\ last.caller = "normal"
  /\ ~last.threw

\* C22: after a run of the normal engine that extracted at least one item
\* and saved through saveLearnedForHost, the list selectors the run used are
\* in the list bucket of the host's profile "default", and getLearnedForHost
\* returns a list bucket that contains them.
C22_ListSelectorsLearned ==
  NormalSaved =>
    /\ DefaultOf(After) # <<>>
    /\ Elems(last.incoming.buckets.list)
         \subseteq Elems(NormalizeBuckets(DefaultOf(After)[1].buckets).list)
    /\ Elems(last.incoming.buckets.list)
         \subseteq Elems(GetLearnedForHost(learnedByHost[last.proc],
                                           last.host).buckets.list)

(* ------------------------ properties of the merge ---------------------- *)

\* the most recent call is an upsertProfile that raised before persist()
RaisedBeforePersist ==
  /\ last.op = "upsert"
  /\ last.threw
  /\ ~last.writeFailed

\* C23: when upsertProfile raises before it persists, the profiles of the
\* host in memory are what they were before the call: none added, none
\* evicted, none reordered.
C23_RaiseLeavesStore ==
  RaisedBeforePersist => After = last.before

\* the most recent call is an upsertProfile that merged into a profile the
\* host already had (the merge is done before persist(), whether the write
\* succeeds or not)
MergedExisting ==
  /\ last.op = "upsert"
  /\ ~last.threw \/ last.writeFailed
  /\ ~last.created

\* the buckets of the target of the most recent call, before and after it
OldBuckets == last.before[FindById(last.before, last.target)].buckets

NewBuckets == After[FindById(After, last.target)].buckets

UnionBuckets == {"anchors", "containers", "broad", "candidates"}

C24_AtCap ==
  /\ MergedExisting
  /\ Items(last.incoming) > 0
  /\ \A b \in BucketNames : Len(OldBuckets[b]) = CAPS[b]
  /\ \A b \in {"list", "anchors", "candidates"} :
       \E s \in Elems(NormalizeBuckets(last.incoming.buckets)[b]) :
         s \notin Elems(OldBuckets[b])

(* ---------------------- runs that report their items ------------------- *)

\* how many upserts a behaviour of SpecMetrics performs
MaxReports == 3

\* the numbers of items a run reports
ItemCounts == <<0, 1, 5>>

\* the series of runs, numbered from 0: series k reports
\* ItemCounts[digit j of k in base 3] at its j-th upsert
SeriesIds == 0..26

Series(k) ==
  <<ItemCounts[(k % 3) + 1], ItemCounts[((k \div 3) % 3) + 1],
    ItemCounts[((k \div 9) % 3) + 1]>>

\* the profile a series writes to, named explicitly
SeriesProfile(k) == GenId(100 + k)

\* the profiles of shop.com in the memory of p1
ShopProfiles == learnedByHost["p1"][NormalizeHost(HostShop)]

\* the runs the profile of series k has seen: 0 when there is no profile
RunsOf(k) ==
  IF FindById(ShopProfiles, SeriesProfile(k)) = 0 THEN 0
  ELSE ShopProfiles[FindById(ShopProfiles, SeriesProfile(k))].metrics.runs

\* the next run of series k: upsertProfile(host, {id, buckets: {},
\* metrics: {items}}, "") with the number of items that run extracted
ReportItems(k) ==
  /\ ops < MaxReports
  /\ pc["p1"] = "idle"
  /\ RunsOf(k) < Len(Series(k))
  /\ \E inc \in {Call(TRUE, SeriesProfile(k), BNone, TRUE,
                      Series(k)[RunsOf(k) + 1])} :
     \E r \in {UpsertCore(learnedByHost["p1"], HostShop, inc, EmptyHtml, clock,
                          GenId(nextId))} :
       /\ UpsertEffect("p1", r, inc, "ok")
       /\ last' = UpsertCall("p1", "api", HostShop, inc, EmptyHtml, r, "ok",
                             Outcome(r, "ok"))
       /\ ops' = ops + 1
       /\ UNCHANGED <<clock, pc, run, won>>

InitMetrics ==
  /\ InitCommon
  /\ disk = AbsentFile
  /\ learnedByHost = [p \in Procs |-> EmptyStore]

NextMetrics ==
  \/ \E k \in SeriesIds : ReportItems(k)
  \/ Tick

SpecMetrics == InitMetrics /\ [][NextMetrics]_vars

RECURSIVE SumRuns(_)
SumRuns(profiles) ==
  IF profiles = <<>> THEN 0
  ELSE Head(profiles).metrics.runs + SumRuns(Tail(profiles))

\* the items reported to a profile in its first n upserts
Reported(id, n) ==
  {Series(k)[j] : k \in {k \in SeriesIds : SeriesProfile(k) = id}, j \in 1..n}

\* the metrics of the target of the most recent call, before and after it
OldMetrics ==
  IF last.created THEN [runs |-> 0, avgItems |-> 0]
  ELSE last.before[FindById(last.before, last.target)].metrics

NewMetrics == After[FindById(After, last.target)].metrics

\* C25: each upsertProfile increases the runs of its target by exactly 1 and
\* sets avgItems to (previous avgItems * (runs - 1) + items) / runs, rounded
\* to the nearest whole number, halves up; so the runs of a profile are the
\* number of upserts since it was created, and avgItems lies between the
\* smallest and the largest number of items reported to it.
C25_Metrics ==
  /\ (last.op = "upsert" /\ ~last.threw) =>
       /\ NewMetrics.runs = OldMetrics.runs + 1
       /\ 2 * (NewMetrics.avgItems * NewMetrics.runs
               - (OldMetrics.avgItems * OldMetrics.runs + Items(last.incoming)))
            \in (1 - NewMetrics.runs)..NewMetrics.runs
  /\ SumRuns(ShopProfiles) = ops
  /\ \A i \in 1..Len(ShopProfiles) :
       /\ ShopProfiles[i].metrics.runs >= 1
       /\ \E lo \in Reported(ShopProfiles[i].id, ShopProfiles[i].metrics.runs) :
            lo <= ShopProfiles[i].metrics.avgItems
       /\ \E hi \in Reported(ShopProfiles[i].id, ShopProfiles[i].metrics.runs) :
            hi >= ShopProfiles[i].metrics.avgItems

\* C25, its case: the third upsert of a profile, where the average is not a
\* whole number and is rounded up
C25_Witness ==
  /\ last.op = "upsert"
  /\ ~last.threw
  /\ ~last.created
  /\ NewMetrics.runs = 3
  /\ (OldMetrics.avgItems * OldMetrics.runs + Items(last.incoming)) % 3 = 2
  /\ NewMetrics.avgItems * 3
       > OldMetrics.avgItems * OldMetrics.runs + Items(last.incoming)

\* the most recent call is an upsertProfile that reached the merge
Merged ==
  /\ last.op = "upsert"
  /\ ~last.threw \/ last.writeFailed

\* the field map of the target of the most recent call, before and after it
OldFields == IF last.created THEN NoFields ELSE OldBuckets.fields

NewFields == NewBuckets.fields

\* C26: after an upsert the field map of the profile holds every field name
\* it had and every incoming name; a name in both has the incoming rule, a
\* name of the profile alone keeps its rule; no name is removed.
C26_FieldsMerged ==
  Merged =>
    /\ DOMAIN NewFields = (DOMAIN OldFields) \cup (DOMAIN last.incoming.buckets.fields)
    /\ \A k \in DOMAIN last.incoming.buckets.fields :
         NewFields[k] = last.incoming.buckets.fields[k]
    /\ \A k \in (DOMAIN OldFields) \ (DOMAIN last.incoming.buckets.fields) :
         NewFields[k] = OldFields[k]

\* C26, its case: the profile had a rule for a name that the call gives
\* another rule for, and a rule for a name the call does not mention
C26_Witness ==
  /\ Merged
  /\ ~last.created
  /\ \E k \in (DOMAIN OldFields) \cap (DOMAIN last.incoming.buckets.fields) :
       OldFields[k] # last.incoming.buckets.fields[k]
  /\ (DOMAIN OldFields) \ (DOMAIN last.incoming.buckets.fields) # {}

(* ------------------------ raw runs with --assist ----------------------- *)

\* "[data-product-id]", "[data-product-card]", ".product-card",
\* ".product-grid, [data-product-grid]" and
\* "#product-grid .grid__item, .collection .grid__item"
SelDataProductId == Sel(951)

SelDataProductCard == Sel(952)

SelProductCard == Sel(52)

SelProductGrid == Sel(53)

SelGridItems == Sel(54)

\* what the page gives assisted learn: the short selectors of its elements
\* with attributes, headings and prices, and the field rules it finds with
\* their confidence in hundredths; none on a page that states none
AssistCands(html) ==
  IF "assistCands" \in DOMAIN html THEN html.assistCands ELSE <<>>

AssistFields(html) ==
  IF "assistFields" \in DOMAIN html THEN html.assistFields ELSE NoFields

\* assisted_learn.ts runAssistedLearn: collectCandidates and buildBuckets,
\* with the suggested fields of pickFieldSelectors
RunAssistedLearn(html) ==
  [suggestedFields |-> AssistFields(html),
   anchors    |-> Cap(Uniq(<<SelProductLinks, SelProductsLinks,
                             AnchorOf(SelDataProductId),
                             AnchorOf(SelProductCard)>>), 40),
   containers |-> Cap(Uniq(<<SelDataProductId, SelDataProductCard,
                             SelProductCard, SelProductGrid, SelGridItems>>), 40),
   candidates |-> Cap(Uniq(AssistCands(html)), 120)]

\* engine.raw.ts runRaw, prepend: unique([...(xs || []), ...into])
Prepend(xs, into) == Unique(xs \o into)

\* engine.raw.ts runRaw, "if (assistBuckets)"
WithAssist(buckets, assist) ==
  [buckets EXCEPT
     !.anchors    = Cap(Prepend(assist.anchors, @), 60),
     !.containers = Cap(Prepend(assist.containers, @), 60),
     !.candidates = Cap(Prepend(assist.candidates, @), 120)]

\* engine.raw.ts runRaw, assisted learn: a suggested rule with confidence
\* >= 0.7 is taken for a field that has no rule
WithAssistFields(fields, suggested) ==
  [k \in (DOMAIN fields)
         \cup {k \in DOMAIN suggested : suggested[k].confidence >= 70} |->
     IF k \in DOMAIN fields THEN fields[k] ELSE suggested[k].rule]

\* engine.raw.ts runRaw with opts.assist, from getBestProfile to
\* postProcessItems
RawExtractAssisted(p) ==
  /\ pc[p] = "loaded"
  /\ run[p].kind = "assist"
  /\ \E g \in {GetBestProfile(learnedByHost[p], run[p].host, run[p].url,
                              run[p].html)} :
     \E a \in {RunAssistedLearn(run[p].html)} :
     \E c \in {Cascade(run[p].html,
                       WithAssist(RawBuckets(g.buckets, g.score, run[p].html), a),
                       WithAssistFields(RawFields(g.buckets, run[p].html),
                                        a.suggestedFields))} :
     \E out \in {PostProcessItems(c.items)} :
       /\ run' = [run EXCEPT ![p] =
                    [@ EXCEPT !.idx = g.idx, !.score = g.score,
                              !.learned = g.buckets, !.raw = c.items,
                              !.out = out, !.items = Len(out),
                              !.winners = c.winners, !.tried = c.tried]]
       /\ pc' = [pc EXCEPT ![p] = "extracted"]
       /\ UNCHANGED <<learnedByHost, disk, clock, nextId, last, ops, saved,
                      won, failedWrites>>

\* the selectors that find the two cards of a page of AssistPages: a learned
\* anchor, an assisted anchor, the autodetected anchor, an assisted
\* container, a learned container, an assisted candidate
AssistMatchers ==
  {Sel(1022), SelProductLinks, Sel(1021), SelProductCard, Sel(11), Sel(61)}

\* a page of the template of DocA on which the selectors of F find the cards
AssistDoc(F) ==
  [assistCands |-> <<Sel(61), Sel(11)>>,
   assistFields |-> [desc  |-> [rule |-> 9, confidence |-> 75],
                     price |-> [rule |-> 8, confidence |-> 95],
                     image |-> [rule |-> 6, confidence |-> 60]]]
  @@ [DocA EXCEPT !.found = [s \in F |-> <<PricedCard(1), PricedCard(2)>>]]

AssistPages == {AssistDoc(F) : F \in SUBSET AssistMatchers}

InitAssist ==
  /\ InitCommon
  /\ disk \in {AbsentFile, JsonFile(LearnedStore)}
  /\ learnedByHost = [p \in Procs |-> EmptyStore]

NextAssist ==
  \/ \E kind \in {"raw", "assist"}, html \in AssistPages :
       StartRun("p1", kind, [host |-> HostShop, url |-> UrlList, html |-> html])
  \/ RawExtract("p1")
  \/ RawExtractAssisted("p1")
  \/ RawSave("p1")

SpecAssist == InitAssist /\ [][NextAssist]_vars

\* the raw runs, assisted or not, that have extracted and not yet saved
Cascaded ==
  {p \in Procs : pc[p] = "extracted" /\ run[p].kind \in {"raw", "assist"}}

\* the buckets the run of p built for the cascade
BuiltBuckets(p) ==
  IF run[p].kind = "assist"
  THEN WithAssist(BucketsOf(p), RunAssistedLearn(run[p].html))
  ELSE BucketsOf(p)

\* where a selector of a bucket of the run of p comes from: 1 learned,
\* 2 autodetected, 3 the fixed defaults, 4 assisted
Precedence(p, name, s) ==
  IF s \in Elems(run[p].learned[name]) THEN 1
  ELSE IF s \in Elems(MapSeq(run[p].html.autoList, ToAnchorVariant))
                  \cup Elems(run[p].html.autoList)
                  \cup Elems(run[p].html.autoCands) THEN 2
  ELSE IF s \in {SelProductLinks, SelProductsLinks} /\ name = "broad" THEN 3
  ELSE 4

\* C27: in every bucket a raw run builds for the cascade the selectors are
\* in the precedence learned, autodetected, classified default, assisted: no
\* selector is placed, and so tried, before one of a higher precedence of
\* the same bucket.
C27_LearnedFirst ==
  \A p \in Cascaded :
    \A name \in BucketNames :
      \A i, j \in 1..Len(BuiltBuckets(p)[name]) :
        i < j => Precedence(p, name, BuiltBuckets(p)[name][i])
                   <= Precedence(p, name, BuiltBuckets(p)[name][j])

\* the precedence holds in the buckets of the runs without --assist
UnassistedInOrder ==
  \A p \in Cascaded :
    run[p].kind = "raw" =>
      \A name \in BucketNames :
        \A i, j \in 1..Len(BuiltBuckets(p)[name]) :
          i < j => Precedence(p, name, BuiltBuckets(p)[name][i])
                     <= Precedence(p, name, BuiltBuckets(p)[name][j])

\* an assisted run on a host with a learned profile took its items from an
\* assisted anchor selector although a learned anchor selector, placed
\* after it and not tried, finds the cards too
AssistedWonOverLearned ==
  \E p \in Cascaded :
    /\ run[p].kind = "assist"
    /\ run[p].learned.anchors # <<>>
    /\ run[p].winners # <<>>
    /\ Precedence(p, "anchors", run[p].winners[1]) = 4
    /\ \E s \in Elems(run[p].learned.anchors) :
         /\ Matches(run[p].html, s)
         /\ s \notin Elems(run[p].tried)

(* ------------------ properties of the items of a run ------------------- *)

\* C28: every item that extractItems hands to post-processing was scored by
\* the pre-filter and has a score of at least 1; none is unscored (score 0
\* is an item without _score).
C28_ScoredItemsOnly ==
  \A p \in Extracted :
    \A i \in 1..Len(run[p].raw) : run[p].raw[i].score >= 1

\* C29: every item of the output of postProcessItems has an href, no two of
\* them have the same pair of canonical href and title, and each is the
\* canonical copy of a raw item that has an href: a raw item without href
\* is not in the output.
C29_HrefAndUniquePairs ==
  \A p \in Extracted :
    /\ \A i \in 1..Len(run[p].out) :
         /\ run[p].out[i].href # NoHref
         /\ \E k \in 1..Len(run[p].raw) :
              /\ run[p].raw[k].href # NoHref
              /\ DedupeKey(Canonical(run[p].raw[k])) = DedupeKey(run[p].out[i])
    /\ \A i, j \in 1..Len(run[p].out) :
         i # j => DedupeKey(run[p].out[i]) # DedupeKey(run[p].out[j])

\* C29, its case: the raw items of a run hold one without href and two whose
\* hrefs differ but whose canonical href and title are the same; the output
\* is not empty and shorter than the raw items
C29_Witness ==
  \E p \in Extracted :
    /\ \E k \in 1..Len(run[p].raw) : run[p].raw[k].href = NoHref
    /\ \E k, m \in 1..Len(run[p].raw) :
         /\ run[p].raw[k].href # NoHref
         /\ run[p].raw[k].href # run[p].raw[m].href
         /\ DedupeKey(Canonical(run[p].raw[k])) = DedupeKey(Canonical(run[p].raw[m]))
    /\ run[p].out # <<>>
    /\ Len(run[p].out) < Len(run[p].raw)

(* --------------------- properties of the host keys --------------------- *)

\* the step is a call of upsertProfile, or follows one without another call
\* in between
UpsertStep == last'.op = "upsert" /\ (last' # last \/ pc' # pc)

\* the store the call of the step found in the memory of its process:
\* runTeach reloads the file just before its upsertProfile
FoundStore ==
  IF last'.caller = "teach"
  THEN LoadResult(learnedByHost[last'.proc], disk).store
  ELSE learnedByHost[last'.proc]

\* the step is the part of a raw run that calls getBestProfile
BestProfileStep(p) == pc[p] = "loaded" /\ pc'[p] = "extracted"

\* C30: upsertProfile(host, ...) changes only the record under the
\* normalized key of host, in the memory of the process that calls it: the
\* records of the other host keys are as before; getBestProfile changes no
\* record.
C30_OnlyOwnKey ==
  [][/\ UpsertStep =>
          /\ last'.key = NormalizeHost(last'.host)
          /\ \A k \in HostKeys \ {last'.key} :
               learnedByHost'[last'.proc][k] = FoundStore[k]
          /\ \A q \in Procs \ {last'.proc} :
               learnedByHost'[q] = learnedByHost[q]
     /\ \A p \in Procs :
          BestProfileStep(p) => learnedByHost' = learnedByHost /\ disk' = disk
    ]_vars

\* C30, its case: a call for a host whose name normalizes to another text
\* has changed the record of its key while the process holds profiles of
\* another host, and a raw run has asked getBestProfile before a call
C30_Witness ==
  /\ last.op = "upsert"
  /\ After # last.before
  /\ \E k \in HostKeys \ {last.key} : learnedByHost[last.proc][k] # <<>>
  /\ \E w \in won : TRUE

=============================================================================
